---- MODULE Spec2Model ----
(***************************************************************************)
(* Model of urllib3_future/connectionpool.py: the per-host connection pool *)
(* (HTTPConnectionPool), its slot manager (TrafficPolice), and the         *)
(* request dispatch / retry / redirect state machine of urlopen and        *)
(* get_response.                                                           *)
(*                                                                         *)
(* util/traffic_police.py, util/retry.py, util/request.py, response.py and *)
(* connection.py are not part of the sources at hand: the operators that   *)
(* stand for them (the slot manager's Occupied, Available, PutFull,        *)
(* KillCursor, Borrowable; Retry*; NOT_FORWARDABLE_HEADERS; is_retry;      *)
(* HasRedirectLocation) follow the written specification and the way       *)
(* connectionpool.py calls them.                                           *)
(***************************************************************************)
EXTENDS Integers, FiniteSets, Sequences, TLC

(* ------------------------------ bounds -------------------------------- *)
\* connection objects that may exist at the same time
MaxConns == 3
\* ResponsePromise objects a run creates; also the stream ceiling of a
\* multiplexed connection
MaxPromises == 2
\* largest retry budget (Retry.total) a caller passes
MaxRetries == 2
\* largest maxsize a pool is built with
MaxSize == 1
\* urlopen is called while fewer requests than this have been sent
MaxRequests == 1
\* read attempts of one promise explored by the model
MaxReads == MaxRetries + 2

(* ------------------------------ universe ------------------------------ *)
Threads == {"t1", "t2"}
NoThread == "none"
ConnIds == 1..MaxConns
NoConn == MaxConns + 1
PromiseIds == 1..MaxPromises
NoPromise == MaxPromises + 1

\* HTTPConnectionPool.scheme and the host the pool is bound to
PoolScheme == "http"
PoolHost == "a"

\* parse_url(url): a url starting with "/" has neither scheme nor host;
\* port 0 stands for None
U(rel, scheme, host, p) == [rel |-> rel, scheme |-> scheme, host |-> host, port |-> p]
UrlPath == U(TRUE, "", "", 0)
UrlA == U(FALSE, "http", "a", 0)
UrlA80 == U(FALSE, "http", "a", 80)
UrlA8080 == U(FALSE, "http", "a", 8080)
UrlAtls == U(FALSE, "https", "a", 0)
UrlB == U(FALSE, "http", "b", 0)
Urls == {UrlPath, UrlA, UrlA80, UrlA8080, UrlAtls, UrlB}

\* util/request.py NOT_FORWARDABLE_HEADERS ("Authorization, Cookie, etc.")
NOT_FORWARDABLE_HEADERS == {"Authorization", "Cookie"}

\* the protocols a connection negotiates (conn._svn); h2 is multiplexed
Svns == {"h11", "h2"}

\* what urlopen / get_response see conn.connect, conn.request and
\* conn.getresponse raise
TransportErrors == {"NewConnectionError", "ReadTimeoutError", "OSError",
                    "MustDowngradeError", "MustRedialError"}
\* raised while the connection is being established
ConnectErrors == {"NewConnectionError"}
\* exceptions.py: RecoverableError and its subclasses
RecoverableErrors == {"MustDowngradeError", "MustRedialError"}

\* response.py REDIRECT_STATUSES, reduced to the two kinds urlopen tells apart
REDIRECT_STATUSES == {302, 303}
NoResp == [status |-> 0, hasloc |-> FALSE, location |-> UrlPath]
Resp(s, h, l) == [status |-> s, hasloc |-> h, location |-> l]

VARIABLES
    pool_open,        \* self.pool is not None
    maxsize,          \* self.pool.maxsize
    block,            \* self.block
    port,             \* self.port (0 for None)
    slots,            \* TrafficPolice: connections installed in the pool
    holder,           \* who has a connection checked out (thread or NoThread)
    hold_lock,        \* thread inside locate_or_hold, or NoThread
    pmap,             \* TrafficPolice: promise -> connection (memorize/forget)
    conns,            \* connection objects: state and negotiated protocol
    prom,             \* ResponsePromise objects and their parameter bag
    num_connections,  \* self.num_connections
    num_requests,     \* self.num_requests
    disabled_svn,     \* self.conn_kw["disabled_svn"]
    fr,               \* per thread: the running call and its position
    ret,              \* the call that has just ended: what it was, how it ended
    call,             \* arguments, locals and history of the dispatch call
    maxsize0,         \* history: the maxsize the pool was built with
    extensions,       \* history: times _put_conn raised pool.maxsize
    happy_eyeballs,   \* self.happy_eyeballs: a bool or an int
    race,             \* the Happy Eyeballs race of the running _new_conn
    background_monitoring,       \* self._background_monitoring is not None
    background_monitoring_stop,  \* self._background_monitoring_stop.is_set()
    watch,            \* idle_conn_watch_task: its position and its locals
    resolver,         \* self._resolver and self._own_resolver
    lookup,           \* a call of NullResolver.getaddrinfo and its result
    description,      \* a call of ResolverDescription.from_url and its result
    clears            \* history: times TrafficPolice.clear() ran

vars == <<pool_open, maxsize, block, port, slots, holder, hold_lock, pmap,
          conns, prom, num_connections, num_requests, disabled_svn, fr, ret, call,
          maxsize0, extensions, happy_eyeballs, race, background_monitoring,
          background_monitoring_stop, watch, resolver, lookup,
          description, clears>>

\* what the connector, the keepalive monitor and the resolver add to the pool
sidevars == <<happy_eyeballs, race, background_monitoring,
              background_monitoring_stop, watch, resolver, lookup,
          description, clears>>

\* the state of the pool and of everything it owns
poolvars == <<pool_open, maxsize, block, port, slots, holder, hold_lock, pmap,
              conns, prom, num_connections, num_requests, disabled_svn>>

(* ------------------------------ Retry --------------------------------- *)
\* util/retry.py Retry, immutable: on = total is not False,
\* ror = raise_on_redirect, ros = raise_on_status
RetryOf(total, ror) == [on |-> TRUE, total |-> total, ror |-> ror, ros |-> TRUE]
\* Retry(False): retries disabled, a redirect is returned instead of raising
RetryOff == [on |-> FALSE, total |-> 0, ror |-> FALSE, ros |-> TRUE]
RetryConfigs == {RetryOf(n, TRUE) : n \in 0..MaxRetries}
                \cup {RetryOff}

\* Retry.increment(error=e): "reraise" when disabled, "exhausted" (MaxRetryError)
\* when the budget is spent, else a new Retry with one unit less
RetryIncrementError(r) ==
    IF ~r.on THEN [kind |-> "reraise", retries |-> r]
    ELSE IF r.total - 1 < 0 THEN [kind |-> "exhausted", retries |-> r]
    ELSE [kind |-> "ok", retries |-> [r EXCEPT !.total = @ - 1]]

\* Retry.increment(response=r)
RetryIncrementResponse(r) ==
    IF ~r.on \/ r.total - 1 < 0 THEN [kind |-> "exhausted", retries |-> r]
    ELSE [kind |-> "ok", retries |-> [r EXCEPT !.total = @ - 1]]

\* Retry.is_retry(method, status, has_retry_after): the configured
\* status_forcelist holds 503
is_retry(r, method, resp) == resp.status = 503

\* HTTPResponse.get_redirect_location()
HasRedirectLocation(resp) == resp.status \in REDIRECT_STATUSES /\ resp.hasloc

(* --------------------------- is_same_host ----------------------------- *)
port_by_scheme(s) == IF s = "http" THEN 80 ELSE IF s = "https" THEN 443 ELSE 0

\* the url's port after "use explicit default port for comparison"
NormalizedPort(u, scheme) ==
    IF port # 0 /\ u.port = 0 THEN port_by_scheme(scheme)
    ELSE IF port = 0 /\ u.port = port_by_scheme(scheme) THEN 0
    ELSE u.port

\* the comparison without the port normalisation
is_same_host_verbatim(u) ==
    u.rel \/ <<u.scheme, u.host, u.port>> = <<PoolScheme, PoolHost, port>>

is_same_host(u) ==
    IF u.rel THEN TRUE
    ELSE LET scheme == IF u.scheme = "" THEN "http" ELSE u.scheme
         IN  <<scheme, u.host, NormalizedPort(u, scheme)>> = <<PoolScheme, PoolHost, port>>

(* ----------------------- connections, promises ------------------------ *)
\* a connection object: free (no such object), closed or open; the protocol
\* it speaks; busy when it carries a request no promise of this pool stands for
FreeConn == [st |-> "free", svn |-> "none", busy |-> FALSE]
FreePromise == [st |-> "free", conn |-> NoConn, method |-> "GET", url |-> UrlPath,
                body |-> FALSE, headers |-> {}, retries |-> RetryOff,
                redirect |-> FALSE, ash |-> FALSE]

\* conn.is_multiplexed
is_multiplexed(c) == conns[c].svn = "h2"
\* conn.is_closed
is_closed(c) == conns[c].st # "open"
\* promises whose response is still outstanding on connection c
Pending(c) == {p \in PromiseIds : prom[p].st = "pending" /\ prom[p].conn = c}
\* conn.is_idle
is_idle(c) == Pending(c) = {} /\ ~conns[c].busy
\* conn.close(): the streams of the connection are lost
Orphan(cs) == [p \in PromiseIds |->
                 IF prom[p].conn \in cs THEN [prom[p] EXCEPT !.conn = NoConn] ELSE prom[p]]

FreeConnIds == {c \in ConnIds : conns[c].st = "free"}
FreePromiseIds == {p \in PromiseIds : prom[p].st = "free"}
\* object identities are handed out in order
NextConnId == CHOOSE x \in FreeConnIds : \A y \in FreeConnIds : x <= y
NextPromiseId == CHOOSE x \in FreePromiseIds : \A y \in FreePromiseIds : x <= y

(* ------------------------------ frames -------------------------------- *)
\* a thread's position: the running call, the connection it works on, and
\* how its last call ended
\* an exception: its class, its errno ("none" where the class has none),
\* and for a ReadTimeoutError the url and the timeout value of its message
\* and the class of the error it was raised from
NoErr == [kind |-> "none", errno |-> "none", url |-> {}, timeout_value |-> {},
          cause |-> "none"]
\* an error raised while a connection is validated or a response is read:
\* where, what, the request's url, conn.timeout and the read timeout, and
\* the error that leaves the step
NoMr == [step |-> "none", err |-> NoErr, url |-> {}, conn_timeout |-> 0,
         read_timeout |-> 0, raised |-> NoErr]

IdleFrame == [pc |-> "idle", op |-> "none", conn |-> NoConn, outcome |-> "none",
              closed0 |-> FALSE,
              \* whether the attempt needs a CONNECT tunnel; history: what was
              \* done to the connection since the attempt acquired it
              tunnel |-> FALSE, trail |-> <<>>,
              \* the error a step of _make_request or get_response handles
              mr |-> NoMr]

\* arguments and locals of urlopen / get_response, and the history of the
\* running chain of calls
NoCall ==
    [method |-> "GET", url |-> UrlPath, body |-> FALSE, headers |-> {},
     retries |-> RetryOff, redirect |-> FALSE, ash |-> FALSE, mux |-> FALSE,
     release |-> TRUE,
     \* err, the exception leaving the except clause, response, clean_exit
     exc |-> "none", raising |-> "none", resp |-> NoResp, promise |-> NoPromise,
     clean_exit |-> FALSE,
     \* get_response's argument (NoPromise for None), whether the caller gave
     \* one, and whether urlopen runs on behalf of get_response
     gr_promise |-> NoPromise, gr_with |-> FALSE, nested |-> FALSE,
     \* history: the method and the retry state the chain started with,
     \* Retry.increment calls that returned, retries.sleep() calls, requests
     \* sent, read attempts on gr_promise, and what caused the last
     \* resubmission
     method0 |-> "GET", budget0 |-> RetryOff, incs |-> 0, sleeps |-> 0, sent |-> 0,
     reads |-> 0, via |-> "none"]

\* the call ends: it returns outcome, or raises the exception named outcome
Done(f, outcome) == [f EXCEPT !.pc = "done", !.outcome = outcome, !.conn = NoConn]
NoRet == [op |-> "none", outcome |-> "none", closed0 |-> FALSE, trail |-> <<>>]
\* thread t goes on with frame f; a call that ends leaves the thread idle
\* and its result in ret, which the next step of a call clears
SetFrame(t, f) ==
    IF f.pc = "done"
    THEN /\ fr' = [fr EXCEPT ![t] = IdleFrame]
         /\ ret' = [op |-> f.op, outcome |-> f.outcome, closed0 |-> f.closed0,
                    trail |-> f.trail]
    ELSE /\ fr' = [fr EXCEPT ![t] = f]
         /\ ret' = NoRet
\* no call is running in thread t
Ready(t) == fr[t].pc = "idle"
RawOps == {"get_conn", "new_conn", "put_conn"}
\* the frame of a call that starts now; closed0 remembers whether close()
\* had returned by then
Call(op) == [IdleFrame EXCEPT !.op = op, !.closed0 = ~pool_open]

\* a closed pool left its caller with a None instead of an exception
ReturnsNone(t, f) == SetFrame(t, Done(f, "None"))
\* "if self.pool is None: raise ClosedPoolError(self, "Pool is closed")"
RaiseClosedPool(t, f) == SetFrame(t, Done(f, "ClosedPoolError"))

(* ------------------- slot manager (TrafficPolice) --------------------- *)
\* slots in use: installed connections plus the one reserved by locate_or_hold
Occupied == Cardinality(slots) + (IF hold_lock = NoThread THEN 0 ELSE 1)
\* non_saturated_only: a multiplexed connection below its stream ceiling
Saturated(c) == Cardinality(Pending(c)) >= MaxPromises
\* connections pool.get(non_saturated_only=True) may hand out
Available == {c \in slots : holder[c] = NoThread /\ ~Saturated(c)}
\* the connections thread t has checked out
Held(t) == {c \in ConnIds : holder[c] = t}
\* TrafficPolice.put raises queue.Full: the connection owns no slot and
\* none is left
PutFull(c) == c \notin slots /\ Occupied >= maxsize

\* TrafficPolice.kill_cursor(): destroy the connection the thread holds
KillCursor(c) ==
    /\ slots' = slots \ {c}
    /\ holder' = [holder EXCEPT ![c] = NoThread]
    /\ conns' = [conns EXCEPT ![c] = FreeConn]
    /\ pmap' = [p \in PromiseIds |-> IF pmap[p] = c THEN NoConn ELSE pmap[p]]
    /\ prom' = Orphan({c})

(* --------------------------- _put_conn -------------------------------- *)
\* _put_conn without its "except AttributeError" branch for a closed pool
PutKindOpenOnly(c) ==
    IF ~PutFull(c) THEN "stored"
    ELSE IF block THEN "full_block"
    ELSE IF ~is_idle(c) THEN "extend"
    ELSE "discard"

\* With this mutant _put_conn has no branch for the connection that is not
\* idle: whatever finds no room is discarded.
PutKindNeverExtends(c) ==
    IF ~pool_open THEN "closed_pool"
    ELSE IF ~PutFull(c) THEN "stored"
    ELSE IF block THEN "full_block"
    ELSE "discard"

\* the branch one pass over the body of _put_conn(conn) takes
PutKind(c) ==
    IF ~pool_open THEN "closed_pool"
    ELSE IF ~PutFull(c) THEN "stored"
    ELSE IF block THEN "full_block"
    ELSE IF ~is_idle(c) THEN "extend"
    ELSE "discard"

\* With this mutant _put_conn closes and discards every connection it is
\* given.
PutConnDiscards(c) ==
    /\ slots' = slots \ {c}
    /\ holder' = [holder EXCEPT ![c] = NoThread]
    /\ conns' = [conns EXCEPT ![c] = FreeConn]
    /\ prom' = Orphan({c})
    /\ maxsize' = maxsize
    /\ extensions' = extensions
    /\ num_connections' = num_connections - 1

\* the effect of that pass on the pool
PutConnEffect(c) ==
    LET k == PutKind(c)
        closes == k = "closed_pool" \/ (k \in {"full_block", "discard"} /\ is_idle(c))
    IN
    /\ slots' = IF k = "stored" THEN slots \cup {c} ELSE slots
    /\ holder' = IF k = "extend" THEN holder ELSE [holder EXCEPT ![c] = NoThread]
    /\ conns' = IF closes THEN [conns EXCEPT ![c] = FreeConn] ELSE conns
    /\ prom' = IF closes THEN Orphan({c}) ELSE prom
    /\ maxsize' = IF k = "extend" THEN maxsize + 1 ELSE maxsize
    /\ extensions' = IF k = "extend" THEN extensions + 1 ELSE extensions
    /\ num_connections' = IF k \in {"closed_pool", "discard"}
                          THEN num_connections - 1 ELSE num_connections

\* how the caller's _put_conn call goes on after that pass
AfterPut(f, k) ==
    IF k = "extend" THEN [f EXCEPT !.pc = "pc_put"]
    ELSE IF k = "full_block" THEN Done(f, "FullPoolError")
    ELSE Done(f, "returned")

PutConnStep(t, f) ==
    /\ PutConnEffect(f.conn)
    /\ SetFrame(t, AfterPut(f, PutKind(f.conn)))
    /\ call' = NoCall
    /\ UNCHANGED <<pool_open, block, port, hold_lock, pmap, num_requests,
                   disabled_svn, maxsize0>>
    /\ UNCHANGED sidevars

\* pool._put_conn(conn) with a connection the thread holds
\* (also HTTPResponse.release_conn())
CallPutConn(t) ==
    /\ Ready(t)
    /\ \E c \in Held(t) : PutConnStep(t, [Call("put_conn") EXCEPT !.conn = c])

\* the pass of _put_conn that follows "self.pool.maxsize += 1"
PutConn(t) ==
    /\ fr[t].pc = "pc_put"
    /\ PutConnStep(t, fr[t])

\* a connection built outside the pool comes into the hands of a thread that
\* holds none:
\* connected, and either idle or multiplexed with a request in flight
\* (explored while num_connections has not gone negative, which keeps the
\* counter bounded)
ForeignConn(t) ==
    /\ Ready(t)
    /\ Held(t) = {}
    /\ pool_open
    /\ num_connections >= 0
    /\ FreeConnIds # {}
    /\ \E busy \in BOOLEAN :
          LET c == NextConnId IN
          /\ holder' = [holder EXCEPT ![c] = t]
          /\ conns' = [conns EXCEPT ![c] =
                          [st |-> "open", svn |-> IF busy THEN "h2" ELSE "h11",
                           busy |-> busy]]
    /\ UNCHANGED <<pool_open, maxsize, block, port, slots, hold_lock, pmap, prom,
                   num_connections, num_requests, disabled_svn, fr, ret, call,
                   maxsize0, extensions>>
    /\ UNCHANGED sidevars

\* the exchange in flight on connection c ends (the response has been read
\* from the connection): conn.is_idle turns True
ForeignResponse(c) ==
    /\ conns[c].st = "open" /\ conns[c].busy
    /\ conns' = [conns EXCEPT ![c].busy = FALSE]
    /\ UNCHANGED <<pool_open, maxsize, block, port, slots, holder, hold_lock, pmap,
                   prom, num_connections, num_requests, disabled_svn, fr, ret, call,
                   maxsize0, extensions>>
    /\ UNCHANGED sidevars

(* --------------------------- _get_conn -------------------------------- *)
\* where a call goes once _get_conn / _new_conn has returned connection c
AfterAcquire(f, c) ==
    IF f.op \in RawOps THEN Done(f, "conn")
    ELSE [f EXCEPT !.conn = c, !.pc = "uo_request", !.trail = <<>>]

\* _get_conn that ignores self.block
OnEmptyNewConn(f) == [f EXCEPT !.pc = "nc_hold"]

\* what _get_conn does when pool.get raised queue.Empty
OnEmpty(f) ==
    IF block THEN Done(f, "EmptyPoolError") ELSE [f EXCEPT !.pc = "nc_hold"]

\* _get_conn up to the call of _new_conn
GetConnStep(t, f) ==
    /\ \/ /\ ~pool_open
          /\ RaiseClosedPool(t, f)
          /\ UNCHANGED <<holder, conns>>
       \/ /\ pool_open
          /\ \E c \in Available : \E dropped \in BOOLEAN :
                /\ holder' = [holder EXCEPT ![c] = t]
                /\ conns' = IF dropped /\ is_idle(c)
                            THEN [conns EXCEPT ![c].st = "closed"] ELSE conns
                /\ SetFrame(t, AfterAcquire(f, c))
       \/ /\ pool_open /\ Available = {} /\ Occupied < maxsize
          /\ SetFrame(t, [f EXCEPT !.pc = "nc_hold"])
          /\ UNCHANGED <<holder, conns>>
       \/ /\ pool_open /\ Available = {} /\ Occupied >= maxsize
          /\ SetFrame(t, OnEmpty(f))
          /\ UNCHANGED <<holder, conns>>
    /\ UNCHANGED <<pool_open, maxsize, block, port, slots, hold_lock, pmap, prom,
                   num_connections, num_requests, disabled_svn, maxsize0, extensions>>
    /\ UNCHANGED sidevars

\* pool._get_conn()
CallGetConn(t) ==
    /\ Ready(t)
    /\ GetConnStep(t, Call("get_conn"))
    /\ call' = NoCall

(* --------------------------- _new_conn -------------------------------- *)
\* the values of happy_eyeballs: a bool (isinstance(..., bool)) or an int;
\* n is the value as an integer (True is 1, False is 0)
HEBool(b) == [is_bool |-> TRUE, n |-> IF b THEN 1 ELSE 0]
HEInt(n) == [is_bool |-> FALSE, n |-> n]
\* line 498: "if self.happy_eyeballs:"
Truthy(h) == h.n # 0

\* enter locate_or_hold, count the connection, build the connection object
NewConnStep(t, f) ==
    /\ \/ /\ ~pool_open
          /\ RaiseClosedPool(t, f)
          /\ UNCHANGED <<hold_lock, holder, conns, num_connections>>
       \/ /\ pool_open /\ hold_lock = NoThread /\ Occupied < maxsize
          /\ FreeConnIds # {}
          /\ LET c == NextConnId IN
                /\ hold_lock' = t
                /\ holder' = [holder EXCEPT ![c] = t]
                /\ conns' = [conns EXCEPT ![c] = [FreeConn EXCEPT !.st = "closed"]]
                /\ num_connections' = num_connections + 1
                /\ SetFrame(t, [f EXCEPT !.conn = c,
                                         !.pc = IF Truthy(happy_eyeballs)
                                                THEN "nc_resolve" ELSE "nc_swap"])
    /\ UNCHANGED <<pool_open, maxsize, block, port, slots, pmap, prom, num_requests,
                   disabled_svn, maxsize0, extensions>>
    /\ UNCHANGED sidevars

\* pool._new_conn()
CallNewConn(t) ==
    /\ Ready(t)
    /\ NewConnStep(t, Call("new_conn"))
    /\ call' = NoCall

\* _new_conn called by _get_conn
NewConnHold(t) ==
    /\ fr[t].pc = "nc_hold"
    /\ NewConnStep(t, fr[t])
    /\ call' = call

\* With this mutant _new_conn leaves locate_or_hold without having called
\* swapper: the connection it returns owns no slot.
NewConnReturnsUninstalled(t) ==
    /\ fr[t].pc = "nc_swap"
    /\ hold_lock' = NoThread
    /\ slots' = slots
    /\ SetFrame(t, AfterAcquire(fr[t], fr[t].conn))
    /\ UNCHANGED <<pool_open, maxsize, block, port, holder, pmap, conns, prom,
                   num_connections, num_requests, disabled_svn, call, maxsize0,
                   extensions>>
    /\ UNCHANGED sidevars

\* swapper(conn) and the exit of locate_or_hold
NewConnSwap(t) ==
    /\ fr[t].pc = "nc_swap"
    /\ hold_lock' = NoThread
    /\ slots' = slots \cup {fr[t].conn}
    /\ SetFrame(t, AfterAcquire(fr[t], fr[t].conn))
    /\ UNCHANGED <<pool_open, maxsize, block, port, holder, pmap, conns, prom,
                   num_connections, num_requests, disabled_svn, call, maxsize0,
                   extensions>>
    /\ UNCHANGED sidevars

(* ------------------------------ close --------------------------------- *)
\* HTTPConnectionPool.close(), called while none of the pool's callers is
\* inside a call: TrafficPolice.clear() closes and evicts every connection
Close ==
    /\ pool_open
    /\ \A t \in Threads : Ready(t)
    /\ pool_open' = FALSE
    /\ slots' = {}
    /\ pmap' = [p \in PromiseIds |-> NoConn]
    /\ hold_lock' = NoThread
    /\ conns' = [c \in ConnIds |->
                    IF c \in slots /\ holder[c] = NoThread THEN FreeConn
                    ELSE IF c \in slots THEN [conns[c] EXCEPT !.st = "closed"]
                    ELSE conns[c]]
    /\ prom' = Orphan(slots)
    \* lines 1407-1409: stop the keepalive task, if the pool has one
    /\ background_monitoring_stop' = (background_monitoring_stop \/ background_monitoring)
    /\ background_monitoring' = FALSE
    \* lines 1412-1413: close the resolver the pool owns
    /\ resolver' = IF resolver.own /\ resolver.available
                   THEN [resolver EXCEPT !.available = FALSE] ELSE resolver
    /\ clears' = clears + 1
    /\ UNCHANGED <<maxsize, block, port, holder, num_connections, num_requests,
                   disabled_svn, fr, ret, call, maxsize0, extensions,
                   happy_eyeballs, race, watch, lookup, description>>

(* ------------------------- the dispatch call -------------------------- *)
\* the thread that calls urlopen and get_response
Caller == "t1"

\* the arguments a caller passes to urlopen
Args(methods, headerss, urls, retriess, redirects, ashs, muxs, releases) ==
    [method : methods, headers : headerss, url : urls, retries : retriess,
     redirect : redirects, ash : ashs, mux : muxs, release : releases]

\* urlopen(method, url, body, headers, retries, redirect, assert_same_host,
\* release_conn, multiplexed): a POST carries a body
UrlopenCall(a) ==
    [NoCall EXCEPT !.method = a.method, !.body = (a.method = "POST"),
                   !.headers = a.headers, !.url = a.url, !.retries = a.retries,
                   !.redirect = a.redirect, !.ash = a.ash, !.mux = a.mux,
                   !.release = a.release, !.method0 = a.method,
                   !.budget0 = a.retries]

\* urlopen lines 1644-1645: "if assert_same_host and not self.is_same_host(url)"
HostChanged(k) == k.ash /\ ~is_same_host(k.url)

\* urlopen up to the return of _get_conn
UrlopenAcquire(t, f, k) ==
    IF HostChanged(k)
    THEN /\ SetFrame(t, Done(f, "HostChangedError"))
         /\ UNCHANGED <<pool_open, maxsize, block, port, slots, holder, hold_lock,
                        pmap, conns, prom, num_connections, num_requests,
                        disabled_svn, maxsize0, extensions>>
         /\ UNCHANGED sidevars
    ELSE GetConnStep(t, f)

\* pool.urlopen(...), called while fewer than limit requests have been sent
UrlopenWithin(t, argset, limit) ==
    /\ Ready(t)
    /\ num_requests < limit
    /\ \E a \in argset :
          /\ call' = UrlopenCall(a)
          /\ UrlopenAcquire(t, Call("urlopen"), UrlopenCall(a))

\* pool.urlopen(...)
CallUrlopen(t, argset) == UrlopenWithin(t, argset, MaxRequests)

\* urlopen calling itself (lines 1844, 1895, 1928) or called by get_response
\* (lines 996, 1060)
UrlopenEnter(t) ==
    /\ fr[t].pc = "uo_enter"
    /\ call' = call
    /\ UrlopenAcquire(t, fr[t], call)

(* ------------------------- _make_request ------------------------------ *)
\* the protocol _validate_conn ends with: the one of a connected connection,
\* else one conn_kw["disabled_svn"] leaves to negotiate (a connection is
\* asked to downgrade from h2 only, so h11 always remains)
SvnChoices(c) == IF is_closed(c) THEN Svns \ disabled_svn ELSE {conns[c].svn}

\* the connection once conn.connect() has negotiated protocol v
Connected(v) == [st |-> "open", svn |-> v, busy |-> FALSE]

\* new_e of lines 1775-1789: an OSError becomes a ProtocolError
NewE(e) == IF e = "OSError" THEN "ProtocolError" ELSE e

\* an except clause that drops the Retry object increment() returned
UrlopenExceptKeepsBudget(k, e) ==
    LET inc == RetryIncrementError(k.retries) IN
    IF inc.kind = "ok"
    THEN [k EXCEPT !.clean_exit = FALSE, !.exc = e, !.raising = "none",
                   !.incs = @ + 1, !.sleeps = @ + 1]
    ELSE [k EXCEPT !.clean_exit = FALSE, !.exc = e,
                   !.raising = IF inc.kind = "reraise" THEN NewE(e)
                               ELSE "MaxRetryError"]

\* an except clause that calls retries.sleep() before retries.increment()
UrlopenExceptSleepsFirst(k, e) ==
    LET inc == RetryIncrementError(k.retries) IN
    IF inc.kind = "ok"
    THEN [k EXCEPT !.clean_exit = FALSE, !.exc = e, !.raising = "none",
                   !.retries = inc.retries, !.incs = @ + 1, !.sleeps = @ + 1]
    ELSE [k EXCEPT !.clean_exit = FALSE, !.exc = e, !.sleeps = @ + 1,
                   !.raising = IF inc.kind = "reraise" THEN NewE(e)
                               ELSE "MaxRetryError"]

\* urlopen's except clause, lines 1762-1807, for the error e
UrlopenExcept(k, e) ==
    LET inc == RetryIncrementError(k.retries) IN
    IF inc.kind = "ok"
    THEN [k EXCEPT !.clean_exit = FALSE, !.exc = e, !.raising = "none",
                   !.retries = inc.retries, !.incs = @ + 1, !.sleeps = @ + 1]
    ELSE [k EXCEPT !.clean_exit = FALSE, !.exc = e,
                   !.raising = IF inc.kind = "reraise" THEN NewE(e)
                               ELSE "MaxRetryError"]

DisabledNever(k, e, v) == disabled_svn

\* lines 1800-1804: the protocol to give up after the except clause ran
DisabledAfter(k, e, v) ==
    IF k.raising = "none" /\ e = "MustDowngradeError"
    THEN disabled_svn \cup {v} ELSE disabled_svn

\* the parameters urlopen sets on the promise, lines 1737-1751
PromiseOf(k, c) ==
    [st |-> "pending", conn |-> c, method |-> k.method, url |-> k.url,
     body |-> k.body, headers |-> k.headers, retries |-> k.retries,
     redirect |-> k.redirect, ash |-> k.ash]

\* the request has gone out
Sent(k) == [k EXCEPT !.sent = @ + 1]

\* urlopen lines 1694-1807: _make_request on the acquired connection, then
\* either the bookkeeping of the response or the except clause
UrlopenRequest(t, errs, resps) ==
    /\ fr[t].pc = "uo_request"
    /\ LET c == fr[t].conn
           k == Sent(call)
       IN
       /\ num_requests' = num_requests + 1
       /\ SetFrame(t, [fr[t] EXCEPT !.pc = "uo_finally"])
       /\ \/ \* conn.connect() fails
             /\ is_closed(c)
             /\ \E e \in errs \cap ConnectErrors :
                   /\ call' = UrlopenExcept(k, e)
                   /\ disabled_svn' = disabled_svn
             /\ UNCHANGED <<conns, prom>>
          \/ \* connected; the request or the read of the response fails
             \E v \in SvnChoices(c) : \E e \in errs \ ConnectErrors :
                   /\ e = "MustDowngradeError" => v = "h2"
                   /\ conns' = [conns EXCEPT ![c] = Connected(v)]
                   /\ call' = UrlopenExcept(k, e)
                   /\ disabled_svn' = DisabledAfter(UrlopenExcept(k, e), e, v)
                   /\ prom' = prom
          \/ \* connected; a multiplexed request returns its promise
             /\ k.mux /\ "h2" \in SvnChoices(c) /\ FreePromiseIds # {}
             /\ conns' = [conns EXCEPT ![c] = Connected("h2")]
             /\ prom' = [prom EXCEPT ![NextPromiseId] = PromiseOf(k, c)]
             /\ call' = [k EXCEPT !.promise = NextPromiseId, !.clean_exit = TRUE,
                                  !.raising = "none"]
             /\ disabled_svn' = disabled_svn
          \/ \* connected; the response is read ("multiplexed = False")
             \E v \in SvnChoices(c) : \E r \in resps :
                   /\ ~(k.mux /\ v = "h2")
                   /\ conns' = [conns EXCEPT ![c] = Connected(v)]
                   /\ call' = [k EXCEPT !.resp = r, !.mux = FALSE,
                                        !.clean_exit = TRUE, !.raising = "none"]
                   /\ UNCHANGED <<prom, disabled_svn>>
    /\ UNCHANGED <<pool_open, maxsize, block, port, slots, holder, hold_lock, pmap,
                   num_connections, maxsize0, extensions>>
    /\ UNCHANGED sidevars

(* --------------- the request, one connection call at a time ----------- *)
\* what _prepare_proxy can raise, as urlopen sees it (lines 1699-1704)
TunnelErrors == {"OSError", "ReadTimeoutError"}

\* a thread's step of urlopen that touches no connection but its own
RequestUnchanged ==
    /\ UNCHANGED <<pool_open, maxsize, block, port, slots, holder, hold_lock, pmap,
                   maxsize0, extensions, num_connections>>
    /\ UNCHANGED sidevars

\* urlopen lines 1696-1704: the CONNECT tunnel of a closed connection, when
\* the pool has a proxy and the destination requires one
RequestTunnel(t, errs) ==
    /\ fr[t].pc = "uo_request"
    /\ \E tunnel \in BOOLEAN :
          LET f == [fr[t] EXCEPT !.tunnel = tunnel, !.trail = <<>>] IN
          \/ /\ tunnel /\ is_closed(f.conn)
             /\ \/ /\ SetFrame(t, [f EXCEPT !.pc = "uo_validate",
                                             !.trail = <<"tunnel">>])
                   /\ call' = call
                \/ \E e \in errs \cap TunnelErrors :
                      /\ SetFrame(t, [f EXCEPT !.pc = "uo_finally"])
                      /\ call' = UrlopenExcept(call, e)
          \/ /\ ~(tunnel /\ is_closed(f.conn))
             /\ SetFrame(t, [f EXCEPT !.pc = "uo_validate"])
             /\ call' = call
    /\ UNCHANGED <<conns, prom, num_requests, disabled_svn>>
    /\ RequestUnchanged

ValidateSkipped(c, v) == conns[c]

\* _validate_conn, lines 783-788: a closed connection is connected
ValidatedConn(c, v) == IF is_closed(c) THEN Connected(v) ELSE conns[c]

\* _make_request lines 1225-1257: _validate_conn, or the error it raises
RequestValidate(t, errs) ==
    /\ fr[t].pc = "uo_validate"
    /\ num_requests' = num_requests + 1
    /\ LET c == fr[t].conn IN
       \/ /\ is_closed(c)
          /\ \E e \in errs \cap ConnectErrors :
                /\ call' = UrlopenExcept(call, e)
                /\ SetFrame(t, [fr[t] EXCEPT !.pc = "uo_finally"])
          /\ conns' = conns
       \/ \E v \in SvnChoices(c) :
             /\ conns' = [conns EXCEPT ![c] = ValidatedConn(c, v)]
             /\ SetFrame(t, [fr[t] EXCEPT !.pc = "uo_send",
                                !.trail = IF is_closed(c) THEN Append(@, "connect")
                                          ELSE @])
             /\ call' = call
    /\ UNCHANGED <<prom, disabled_svn>>
    /\ RequestUnchanged

\* _make_request lines 1304-1390: conn.request, then the promise or the
\* response, or the error of either; urlopen's bookkeeping as in
\* UrlopenRequest
RequestSend(t, errs, resps) ==
    /\ fr[t].pc = "uo_send"
    /\ LET c == fr[t].conn
           k == Sent(call)
           v == conns[c].svn
       IN
       /\ SetFrame(t, [fr[t] EXCEPT !.pc = "uo_finally", !.trail = Append(@, "request")])
       /\ \/ \E e \in errs \ ConnectErrors :
                /\ e = "MustDowngradeError" => v = "h2"
                /\ call' = UrlopenExcept(k, e)
                /\ disabled_svn' = DisabledAfter(UrlopenExcept(k, e), e, v)
                /\ prom' = prom
          \/ /\ k.mux /\ v = "h2" /\ FreePromiseIds # {}
             /\ prom' = [prom EXCEPT ![NextPromiseId] = PromiseOf(k, c)]
             /\ call' = [k EXCEPT !.promise = NextPromiseId, !.clean_exit = TRUE,
                                  !.raising = "none"]
             /\ disabled_svn' = disabled_svn
          \/ \E r \in resps :
                /\ ~(k.mux /\ v = "h2")
                /\ call' = [k EXCEPT !.resp = r, !.mux = FALSE,
                                     !.clean_exit = TRUE, !.raising = "none"]
                /\ UNCHANGED <<prom, disabled_svn>>
    /\ UNCHANGED <<conns, num_requests>>
    /\ RequestUnchanged

(* ------------------------- _raise_timeout ----------------------------- *)
\* line 145
blocking_errnos == {"EAGAIN", "EWOULDBLOCK"}

\* socket.timeout and ssl.SSLError are subclasses of OSError
IsOSError(kind) == kind \in {"OSError", "SocketTimeout", "BaseSSLError"}

\* the errors a step is given: OSErrors with an errno, and errors of
\* urllib3's own classes, which have none
StepErrors ==
    {[NoErr EXCEPT !.kind = k, !.errno = n] :
        k \in {"OSError", "SocketTimeout", "BaseSSLError"},
        n \in {"EAGAIN", "EWOULDBLOCK", "ECONNRESET", "none"}}
    \cup {[NoErr EXCEPT !.kind = k] : k \in {"NewConnectionError", "ProtocolError"}}

ReadTimeoutError(url, timeout_value, err) ==
    [kind |-> "ReadTimeoutError", errno |-> "none", url |-> url,
     timeout_value |-> {timeout_value}, cause |-> err.kind]

RaiseTimeoutOnSocketTimeout(err, url, timeout_value) ==
    IF err.kind = "SocketTimeout" THEN ReadTimeoutError(url, timeout_value, err)
    ELSE NoErr

\* _raise_timeout, lines 806-823: the ReadTimeoutError it raises, or NoErr
\* when it returns
RaiseTimeout(err, url, timeout_value) ==
    IF err.kind = "SocketTimeout" THEN ReadTimeoutError(url, timeout_value, err)
    ELSE IF err.errno # "none" /\ err.errno \in blocking_errnos
    THEN ReadTimeoutError(url, timeout_value, err)
    ELSE NoErr

\* the except clause around the step: lines 1234 (_validate_conn), 1361
\* (conn.getresponse in _make_request) and 854 (in get_response)
Caught(step, err) ==
    IF step = "validate" THEN err.kind \in {"SocketTimeout", "BaseSSLError"}
    ELSE IsOSError(err.kind)

\* lines 1232-1236, 1357-1363 and 850-860: what leaves the step
StepRaises(m) ==
    LET url == IF m.step = "get_response_any" THEN {} ELSE m.url
        timeout_value == IF m.step = "read" THEN m.read_timeout ELSE m.conn_timeout
        r == RaiseTimeout(m.err, url, timeout_value)
    IN  IF Caught(m.step, m.err) /\ r # NoErr THEN r ELSE m.err

\* the timeouts of a request are of 1..MaxTimeout
MaxTimeout == 2
MrSteps == {"validate", "read", "get_response", "get_response_any"}

\* conn.connect() or conn.getresponse() raises in thread t
MakeRequestRaises(t) ==
    /\ Ready(t)
    /\ \E step \in MrSteps : \E err \in StepErrors : \E u \in {UrlPath, UrlB} :
       \E ct \in 1..MaxTimeout : \E rt \in 1..MaxTimeout :
          SetFrame(t, [Call(IF step \in {"validate", "read"} THEN "make_request"
                            ELSE "get_response")
                         EXCEPT !.pc = "mr_except",
                                !.mr = [NoMr EXCEPT !.step = step, !.err = err,
                                                    !.url = {u}, !.conn_timeout = ct,
                                                    !.read_timeout = rt]])
    /\ UNCHANGED <<conns, prom, num_requests, disabled_svn, call>>
    /\ RequestUnchanged

\* the except clause of the step runs
MakeRequestExcept(t) ==
    /\ fr[t].pc = "mr_except"
    /\ SetFrame(t, [fr[t] EXCEPT !.pc = "mr_raised",
                                 !.mr.raised = StepRaises(fr[t].mr)])
    /\ UNCHANGED <<conns, prom, num_requests, disabled_svn, call>>
    /\ RequestUnchanged

\* the error leaves the step
MakeRequestLeave(t) ==
    /\ fr[t].pc = "mr_raised"
    /\ SetFrame(t, Done(fr[t], fr[t].mr.raised.kind))
    /\ UNCHANGED <<conns, prom, num_requests, disabled_svn, call>>
    /\ RequestUnchanged

(* ---------------------- urlopen after the request --------------------- *)
\* a redirect that forwards the request as it was, whatever the status
RedirectForwardsAll(method, body, headers, s) ==
    [method |-> method, body |-> body, headers |-> headers]

\* lines 1876-1882 and 977-983: the request that follows a redirect answered
\* with status s
RedirectRequest(method, body, headers, s) ==
    IF s = 303
    THEN [method |-> "GET", body |-> FALSE, headers |-> headers \ NOT_FORWARDABLE_HEADERS]
    ELSE [method |-> method, body |-> body, headers |-> headers]

RedirectVia(s) == IF s = 303 THEN "redirect303" ELSE "redirect"

\* a redirect handler that raises whatever raise_on_redirect says
AlwaysRaises(retries) == "MaxRetryError"

\* lines 1886-1890 and 987-991: "except MaxRetryError: if
\* retries.raise_on_redirect: raise" else "return response"
OnRedirectExhausted(retries) ==
    IF retries.ror THEN "MaxRetryError" ELSE "response"

\* urlopen calls itself
Resubmit(f, k, via) ==
    [frame |-> [f EXCEPT !.pc = "uo_enter", !.conn = NoConn],
     call |-> [k EXCEPT !.via = via, !.promise = NoPromise, !.clean_exit = FALSE,
                        !.resp = IF via = "error" THEN NoResp ELSE @]]

\* a urlopen that hands every result out as a response
LeaveWithResponse(f, k, outcome) ==
    [frame |-> Done(f, IF outcome = "promise" THEN "response" ELSE outcome),
     call |-> k]

\* urlopen returns or raises; get_response takes over when urlopen ran on
\* its behalf (lines 1015, 1079: "new_promise if promise else None")
Leave(f, k, outcome) ==
    IF ~k.nested \/ outcome \notin {"promise", "response"}
    THEN [frame |-> Done(f, outcome), call |-> k]
    ELSE IF outcome = "response" /\ k.gr_with
    THEN [frame |-> Done(f, "TypeError"), call |-> k]
    ELSE [frame |-> [f EXCEPT !.pc = "gr_borrow", !.conn = NoConn],
          call |-> [k EXCEPT !.nested = FALSE, !.reads = 0,
                             !.gr_promise = IF outcome = "promise" /\ k.gr_with
                                            THEN k.promise ELSE NoPromise]]

\* urlopen lines 1839-1947, once the finally clause has run; f.conn is
\* NoConn when the connection was thrown away
UrlopenAfter(f, k) ==
    IF k.raising # "none" THEN Leave(f, k, k.raising)
    ELSE IF f.conn = NoConn THEN Resubmit(f, k, "error")
    ELSE IF k.mux THEN Leave(f, k, "promise")
    ELSE IF k.redirect /\ HasRedirectLocation(k.resp)
    THEN LET q == RedirectRequest(k.method, k.body, k.headers, k.resp.status)
             inc == RetryIncrementResponse(k.retries)
         IN  IF inc.kind = "exhausted"
             THEN Leave(f, k, OnRedirectExhausted(k.retries))
             ELSE Resubmit(f, [k EXCEPT !.method = q.method, !.body = q.body,
                                        !.headers = q.headers,
                                        !.url = k.resp.location,
                                        !.retries = inc.retries, !.incs = @ + 1,
                                        !.mux = FALSE],
                           RedirectVia(k.resp.status))
    ELSE IF is_retry(k.retries, k.method, k.resp)
    THEN LET inc == RetryIncrementResponse(k.retries)
         IN  IF inc.kind = "exhausted"
             THEN Leave(f, k, IF k.retries.ros THEN "MaxRetryError" ELSE "response")
             ELSE Resubmit(f, [k EXCEPT !.retries = inc.retries, !.incs = @ + 1,
                                        !.sleeps = @ + 1, !.mux = FALSE],
                           "status")
    ELSE Leave(f, k, "response")

\* With this mutant the finally clause never calls memorize.
MemorizeNothing(k, c) == pmap

\* TrafficPolice.memorize(response, conn), lines 1821-1826
Memorize(k, c) ==
    IF k.promise # NoPromise THEN [pmap EXCEPT ![k.promise] = c] ELSE pmap

\* urlopen's finally clause, lines 1809-1837, and what follows it
UrlopenFinally(t) ==
    /\ fr[t].pc = "uo_finally"
    /\ LET f == fr[t]
           c == f.conn
       IN
       IF ~call.clean_exit
       THEN LET n == UrlopenAfter([f EXCEPT !.conn = NoConn], call) IN
            /\ KillCursor(c)
            /\ SetFrame(t, n.frame)
            /\ call' = n.call
            /\ UNCHANGED <<maxsize, extensions, num_connections>>
       ELSE LET n == UrlopenAfter(f, call) IN
            /\ pmap' = Memorize(call, c)
            /\ IF call.release /\ pool_open
               THEN PutConnEffect(c)
               ELSE UNCHANGED <<slots, holder, conns, prom, maxsize, extensions,
                                num_connections>>
            /\ SetFrame(t, [n.frame EXCEPT !.conn = NoConn])
            /\ call' = n.call
    /\ UNCHANGED <<pool_open, block, port, hold_lock, num_requests, disabled_svn,
                   maxsize0>>
    /\ UNCHANGED sidevars

\* the finally clause statement by statement, for a clean exit with a
\* ResponsePromise.  Lines 1821-1828: pool.memorize(response, conn)
UrlopenMemorize(t) ==
    /\ fr[t].pc = "uo_finally"
    /\ call.clean_exit /\ call.promise # NoPromise
    /\ pmap' = Memorize(call, fr[t].conn)
    /\ SetFrame(t, [fr[t] EXCEPT !.pc = "uo_release"])
    /\ UNCHANGED <<pool_open, maxsize, block, port, slots, holder, hold_lock, conns,
                   prom, num_connections, num_requests, disabled_svn, call, maxsize0,
                   extensions>>
    /\ UNCHANGED sidevars

\* lines 1830-1837: "if release_this_conn is True and self.pool is not None",
\* and what follows the finally clause
UrlopenRelease(t) ==
    /\ fr[t].pc = "uo_release"
    /\ LET f == fr[t]
           n == UrlopenAfter(f, call)
       IN
       /\ IF call.release /\ pool_open
          THEN PutConnEffect(f.conn)
          ELSE UNCHANGED <<slots, holder, conns, prom, maxsize, extensions,
                           num_connections>>
       /\ SetFrame(t, [n.frame EXCEPT !.conn = NoConn])
       /\ call' = n.call
    /\ UNCHANGED <<pool_open, block, port, hold_lock, pmap, num_requests,
                   disabled_svn, maxsize0>>
    /\ UNCHANGED sidevars

\* the finally clause in one step, for every other exit
UrlopenFinallyOther(t) ==
    /\ ~(call.clean_exit /\ call.promise # NoPromise)
    /\ UrlopenFinally(t)

\* pool._get_conn() called by a thread other than the one inside urlopen
OtherGetConn(t) ==
    /\ Ready(t)
    /\ GetConnStep(t, Call("get_conn"))
    /\ call' = call
(* ------------- urlopen's finally clause, one test at a time ----------- *)
DiscardsNever(k, c) == FALSE

\* lines 1810-1815: "if not clean_exit: if conn:"
Discards(k, c) == ~k.clean_exit /\ c # NoConn

\* release_this_conn once line 1819 has run: release_conn, or True after
\* an exit that was not clean
ReleaseThisConn(k) == k.release \/ ~k.clean_exit

\* lines 1810-1819: the connection of a failed attempt is thrown away;
\* "self.pool.kill_cursor()" on a pool that close() has set to None raises
\* AttributeError out of the finally clause
FinallyDiscard(t) ==
    /\ fr[t].pc = "uo_finally"
    /\ LET c == fr[t].conn IN
       IF Discards(call, c) /\ pool_open
       THEN /\ KillCursor(c)
            /\ SetFrame(t, [fr[t] EXCEPT !.pc = "uo_fin_memorize", !.conn = NoConn,
                                        !.trail = <<"kill_cursor">>])
       ELSE IF Discards(call, c)
       THEN /\ SetFrame(t, Done([fr[t] EXCEPT !.trail = <<>>], "AttributeError"))
            /\ UNCHANGED <<slots, holder, conns, pmap, prom>>
       ELSE /\ SetFrame(t, [fr[t] EXCEPT !.pc = "uo_fin_memorize", !.trail = <<>>])
            /\ UNCHANGED <<slots, holder, conns, pmap, prom>>
    /\ UNCHANGED <<pool_open, maxsize, block, port, hold_lock, num_connections,
                   num_requests, disabled_svn, call, maxsize0, extensions>>
    /\ UNCHANGED sidevars

\* lines 1821-1826: "clean_exit is True and conn is not None and
\* isinstance(response, ResponsePromise) is True"
Memorizes(k, c) == k.clean_exit /\ c # NoConn /\ k.promise # NoPromise

\* lines 1821-1828: the promise of a clean exit is memorized;
\* "self.pool.memorize(response, conn)" on a pool that close() has set to
\* None raises AttributeError out of the finally clause
FinallyMemorize(t) ==
    /\ fr[t].pc = "uo_fin_memorize"
    /\ pmap' = IF Memorizes(call, fr[t].conn) /\ pool_open
               THEN Memorize(call, fr[t].conn) ELSE pmap
    /\ SetFrame(t, IF Memorizes(call, fr[t].conn) /\ ~pool_open
                   THEN Done(fr[t], "AttributeError")
                   ELSE [fr[t] EXCEPT !.pc = "uo_fin_release"])
    /\ UNCHANGED <<pool_open, maxsize, block, port, slots, holder, hold_lock, conns,
                   prom, num_connections, num_requests, disabled_svn, call, maxsize0,
                   extensions>>
    /\ UNCHANGED sidevars

\* what lines 1830-1837 and the drain_conn() of lines 1886-1893 and
\* 1919-1926 do with the connection: _put_conn, kill_cursor, nothing, or
\* leaving it with the response, which gives it back when it is drained
\* before urlopen calls itself again
ReleaseAct(t, f, k, n) ==
    IF ReleaseThisConn(k) /\ pool_open
    THEN IF f.conn # NoConn
         THEN IF holder[f.conn] = t THEN "put_conn" ELSE "none"
         ELSE IF Held(t) # {} THEN "kill_cursor" ELSE "none"
    ELSE IF f.conn # NoConn /\ ~ReleaseThisConn(k)
    THEN IF n.frame.pc = "uo_enter" THEN "drained" ELSE "handed"
    ELSE "none"

\* the event a release leaves in the trail
ReleaseEvent(act) ==
    IF act = "none" THEN <<>> ELSE IF act = "drained" THEN <<"handed">> ELSE <<act>>

\* lines 1830-1837, and what follows the finally clause
FinallyRelease(t) ==
    /\ fr[t].pc = "uo_fin_release"
    /\ LET f == fr[t]
           n == UrlopenAfter(f, call)
           act == ReleaseAct(t, f, call, n)
       IN
       /\ \/ /\ act \in {"put_conn", "drained"}
             /\ PutConnEffect(f.conn)
             /\ pmap' = pmap
          \/ /\ act = "kill_cursor"
             /\ \E h \in Held(t) : KillCursor(h)
             /\ UNCHANGED <<maxsize, extensions, num_connections>>
          \/ /\ act \in {"none", "handed"}
             /\ UNCHANGED <<slots, holder, conns, pmap, prom, maxsize, extensions,
                            num_connections>>
       /\ SetFrame(t, [n.frame EXCEPT !.conn = NoConn,
                                      !.trail = f.trail \o ReleaseEvent(act)])
       /\ call' = n.call
    /\ UNCHANGED <<pool_open, block, port, hold_lock, num_requests, disabled_svn,
                   maxsize0>>
    /\ UNCHANGED sidevars

(* --------------------------- get_response ----------------------------- *)
\* TrafficPolice.borrow: the promises get_response may be served for; the
\* given one when its connection is memorized, any memorized one for None
Borrowable(p) ==
    {q \in PromiseIds : /\ prom[q].st = "pending"
                        /\ pmap[q] # NoConn
                        /\ (p = NoPromise \/ q = p)}

\* lines 863-913: conn.getresponse raised e while promise q was read
GetResponseExcept(f, k, e) ==
    IF k.gr_promise = NoPromise
    THEN [frame |-> Done(f, e), call |-> [k EXCEPT !.exc = e]]
    ELSE LET inc == RetryIncrementError(prom[k.gr_promise].retries) IN
         IF inc.kind = "ok"
         THEN [frame |-> [f EXCEPT !.pc = "gr_borrow"],
               call |-> [k EXCEPT !.exc = e, !.incs = @ + 1, !.sleeps = @ + 1]]
         ELSE [frame |-> Done(f, IF inc.kind = "reraise" THEN NewE(e)
                                 ELSE "MaxRetryError"),
               call |-> [k EXCEPT !.exc = e]]

\* get_response calls urlopen (lines 996-1013 and 1060-1077)
Nested(f, k, q, req, url, retries, release, via) ==
    [frame |-> [f EXCEPT !.pc = "uo_enter", !.conn = NoConn],
     call |-> [k EXCEPT !.method = req.method, !.body = req.body,
                        !.headers = req.headers, !.url = url,
                        !.retries = retries, !.redirect = prom[q].redirect,
                        !.ash = prom[q].ash, !.mux = TRUE, !.release = release,
                        !.nested = TRUE, !.via = via,
                        !.promise = NoPromise, !.clean_exit = FALSE,
                        !.raising = "none", !.incs = @ + 1]]

\* lines 915-1092: the response r to promise q has been read
GetResponseAfter(f, k, q, r) ==
    LET pr == prom[q]
        same == [method |-> pr.method, body |-> pr.body, headers |-> pr.headers]
    IN
    IF pr.redirect /\ HasRedirectLocation(r)
    THEN LET req == RedirectRequest(pr.method, pr.body, pr.headers, r.status)
             inc == RetryIncrementResponse(pr.retries)
         IN  IF inc.kind = "exhausted"
             THEN [frame |-> Done(f, OnRedirectExhausted(pr.retries)),
                   call |-> [k EXCEPT !.resp = r]]
             ELSE Nested(f, [k EXCEPT !.resp = r], q, req, r.location, inc.retries,
                         TRUE, RedirectVia(r.status))
    ELSE IF is_retry(pr.retries, pr.method, r)
    THEN LET inc == RetryIncrementResponse(pr.retries)
         IN  IF inc.kind = "exhausted"
             THEN [frame |-> Done(f, IF pr.retries.ros THEN "MaxRetryError"
                                     ELSE "response"),
                   call |-> [k EXCEPT !.resp = r]]
             ELSE LET n == Nested(f, [k EXCEPT !.resp = r], q, same, pr.url,
                                  inc.retries, FALSE, "status")
                  IN  [n EXCEPT !.call.sleeps = @ + 1]
    ELSE [frame |-> Done(f, "response"), call |-> [k EXCEPT !.resp = r]]

\* a get_response that leaves the promise in the table
ForgetNothing(q) == pmap

\* line 940: self.pool.forget(from_promise)
Forget(q) == [pmap EXCEPT ![q] = NoConn]

\* one pass over the body of get_response(promise=k.gr_promise)
GetResponseStep(t, f, k, errs, resps) ==
    /\ \/ /\ ~pool_open
          /\ RaiseClosedPool(t, f)
          /\ call' = k
          /\ UNCHANGED <<pmap, prom>>
       \/ \* UnavailableTraffic: "return None"
          /\ pool_open /\ Borrowable(k.gr_promise) = {}
          /\ SetFrame(t, Done(f, "None"))
          /\ call' = k
          /\ UNCHANGED <<pmap, prom>>
       \/ \* conn.getresponse raises
          /\ pool_open /\ k.reads < MaxReads
          /\ \E q \in Borrowable(k.gr_promise) : \E e \in errs \ ConnectErrors :
                LET n == GetResponseExcept(f, [k EXCEPT !.reads = @ + 1], e) IN
                /\ SetFrame(t, n.frame)
                /\ call' = n.call
          /\ UNCHANGED <<pmap, prom>>
       \/ \* the response is read; TrafficPolice.forget(from_promise)
          /\ pool_open
          /\ \E q \in Borrowable(k.gr_promise) : \E r \in resps :
                LET n == GetResponseAfter(f, [k EXCEPT !.reads = @ + 1], q, r) IN
                /\ SetFrame(t, n.frame)
                /\ call' = n.call
                /\ pmap' = Forget(q)
                /\ prom' = [prom EXCEPT ![q] = [FreePromise EXCEPT !.st = "done"]]
    /\ UNCHANGED <<pool_open, maxsize, block, port, slots, holder, hold_lock, conns,
                   num_connections, num_requests, disabled_svn, maxsize0, extensions>>
    /\ UNCHANGED sidevars

\* the promises a caller can pass: those urlopen has returned, or None
Promises == {p \in PromiseIds : prom[p].st # "free"} \cup {NoPromise}

\* pool.get_response(promise=p)
CallGetResponse(t, errs, resps) ==
    /\ Ready(t)
    /\ \E p \in Promises :
          GetResponseStep(t, Call("get_response"),
                          [NoCall EXCEPT !.gr_promise = p,
                                         !.gr_with = (p # NoPromise),
                                         !.method0 = IF p = NoPromise THEN "GET"
                                                     ELSE prom[p].method,
                                         !.budget0 = IF p = NoPromise THEN RetryOff
                                                     ELSE prom[p].retries],
                          errs, resps)

\* get_response calling itself (lines 913, 1015, 1079)
GetResponse(t, errs, resps) ==
    /\ fr[t].pc = "gr_borrow"
    /\ GetResponseStep(t, fr[t], call, errs, resps)

(* -------------------- _new_conn with Happy Eyeballs ------------------- *)
\* the address families of the entries getaddrinfo returns
AF_INET == "AF_INET"
AF_INET6 == "AF_INET6"

\* the lists getaddrinfo can return, as the families of their entries: the
\* i-th resolved address is known by its position i
AddrLists(n) == UNION {[1..m -> {AF_INET6, AF_INET}] : m \in 0..n}

\* lines 518-525: the positions of the resolved addresses from position i on
\* that are IPv6 (want6) or are not
RECURSIVE FamilyOf(_, _, _)
FamilyOf(fams, i, want6) ==
    IF i > Len(fams) THEN <<>>
    ELSE (IF (fams[i] = AF_INET6) = want6 THEN <<i>> ELSE <<>>)
         \o FamilyOf(fams, i + 1, want6)

\* an interleaving that puts the IPv4 entry of each pair first
RECURSIVE InterleaveV4First(_, _)
InterleaveV4First(ipv6_addresses, ipv4_addresses) ==
    IF ipv6_addresses = <<>> /\ ipv4_addresses = <<>> THEN <<>>
    ELSE (IF ipv4_addresses # <<>> THEN <<Head(ipv4_addresses)>> ELSE <<>>)
         \o (IF ipv6_addresses # <<>> THEN <<Head(ipv6_addresses)>> ELSE <<>>)
         \o InterleaveV4First(IF ipv6_addresses # <<>> THEN Tail(ipv6_addresses) ELSE <<>>,
                              IF ipv4_addresses # <<>> THEN Tail(ipv4_addresses) ELSE <<>>)

\* lines 534-542: zip_longest(ipv6_addresses, ipv4_addresses), each pair
\* appended IPv6 entry first, an entry missing from the shorter list skipped
RECURSIVE Interleave(_, _)
Interleave(ipv6_addresses, ipv4_addresses) ==
    IF ipv6_addresses = <<>> /\ ipv4_addresses = <<>> THEN <<>>
    ELSE (IF ipv6_addresses # <<>> THEN <<Head(ipv6_addresses)>> ELSE <<>>)
         \o (IF ipv4_addresses # <<>> THEN <<Head(ipv4_addresses)>> ELSE <<>>)
         \o Interleave(IF ipv6_addresses # <<>> THEN Tail(ipv6_addresses) ELSE <<>>,
                       IF ipv4_addresses # <<>> THEN Tail(ipv4_addresses) ELSE <<>>)

\* lines 518-548: ip_addresses once the families have been looked at
AttemptOrder(fams) ==
    LET ipv6_addresses == FamilyOf(fams, 1, TRUE)
        ipv4_addresses == FamilyOf(fams, 1, FALSE)
    IN  IF ipv4_addresses # <<>> /\ ipv6_addresses # <<>>
        THEN Interleave(ipv6_addresses, ipv4_addresses)
        ELSE [i \in 1..Len(fams) |-> i]

\* a connector that races dual-stack lists only
EligibleDualStack(fams) ==
    /\ Len(fams) > 1
    /\ FamilyOf(fams, 1, TRUE) # <<>> /\ FamilyOf(fams, 1, FALSE) # <<>>

\* line 517: "if len(ip_addresses) > 1:"
Eligible(fams) == Len(fams) > 1

\* a connector that ignores an integer happy_eyeballs
max_task_default(h) == 4

\* lines 550-555: max_task
max_task(h) == IF h.is_bool THEN 4 ELSE h.n

\* line 567: ip_addresses[:max_task]
Slice(seq, n) == SubSeq(seq, 1, IF n < Len(seq) THEN n ELSE Len(seq))

\* connect timeouts: None, or a positive number of seconds (util/timeout.py
\* rejects the others)
NoTimeout == 0
\* lines 560-565: override_timeout
OverrideTimeout(connect_timeout) ==
    IF connect_timeout # NoTimeout THEN connect_timeout ELSE 5

\* no exception
NoError == [cause |-> 0, deadline |-> 0]

\* no race: _new_conn has not resolved anything yet
NoRace ==
    [phase |-> "none", ip_addresses |-> <<>>, order |-> <<>>, targets |-> <<>>,
     tasks |-> <<>>, sock |-> <<>>, winning_task |-> 0, completed_count |-> 0, event |-> FALSE,
     override_timeout |-> 0, error |-> NoError, callback |-> <<>>, loaded |-> <<>>]

\* lines 567-624: one challenger and one submitted task per address to try
\* (targets); a task is pending, running, ok (connect returned) or failed
\* (connect raised), and sock tells whether its challenger holds a transport;
\* callback is the line of _happy_eyeballs_completed the task's worker is
\* at, loaded the completed_count it read for its "+= 1"
StartRace(fams, connect_timeout) ==
    LET ip_addresses == Slice(AttemptOrder(fams), max_task(happy_eyeballs)) IN
    [NoRace EXCEPT !.phase = "racing", !.ip_addresses = fams,
                   !.order = AttemptOrder(fams), !.targets = ip_addresses,
                   !.tasks = [i \in 1..Len(ip_addresses) |-> "pending"],
                   !.sock = [i \in 1..Len(ip_addresses) |-> FALSE],
                   !.callback = [i \in 1..Len(ip_addresses) |-> "none"],
                   !.loaded = [i \in 1..Len(ip_addresses) |-> 0],
                   !.override_timeout = OverrideTimeout(connect_timeout)]

\* lines 498-599 and 652-657: getaddrinfo returns one of lists; the race is
\* set up, or the list is "Happy-Eyeball Ineligible"
HappyEyeballsResolve(t, lists, timeouts) ==
    /\ fr[t].pc = "nc_resolve"
    /\ \E fams \in lists : \E connect_timeout \in timeouts :
          IF Eligible(fams)
          THEN /\ race' = StartRace(fams, connect_timeout)
               /\ SetFrame(t, [fr[t] EXCEPT !.pc = "nc_wait"])
          ELSE /\ race' = [NoRace EXCEPT !.phase = "ineligible",
                                         !.ip_addresses = fams]
               /\ SetFrame(t, [fr[t] EXCEPT !.pc = "nc_swap"])
    /\ UNCHANGED <<pool_open, maxsize, block, port, slots, holder, hold_lock, pmap,
                   conns, prom, num_connections, num_requests, disabled_svn, call,
                   maxsize0, extensions, happy_eyeballs, background_monitoring,
                   background_monitoring_stop, watch, resolver, lookup,
                   description, clears>>

RaceTasks == 1..Len(race.tasks)

\* a worker of the ThreadPoolExecutor takes task i and calls
\* challenger.connect
TaskStart(i) ==
    /\ i \in RaceTasks /\ race.tasks[i] = "pending"
    /\ race' = [race EXCEPT !.tasks[i] = "running"]
    /\ UNCHANGED <<pool_open, maxsize, block, port, slots, holder, hold_lock, pmap,
                   conns, prom, num_connections, num_requests, disabled_svn, fr, ret,
                   call, maxsize0, extensions, happy_eyeballs, background_monitoring,
                   background_monitoring_stop, watch, resolver, lookup,
                   description, clears>>

\* lines 601-613: _happy_eyeballs_completed for task i, whose connect
\* returned (ok) or raised
Completed(r, i, ok) ==
    IF r.winning_task = 0 /\ ok
    THEN [r EXCEPT !.winning_task = i, !.event = TRUE]
    ELSE [r EXCEPT !.completed_count = @ + 1,
                   !.event = @ \/ (r.completed_count + 1 >= Len(r.tasks))]

\* challenger.connect of task i ends, within its timeout, and the done
\* callback runs
TaskComplete(i, outcomes) ==
    /\ i \in RaceTasks /\ race.tasks[i] = "running"
    /\ \E ok \in outcomes :
          race' = Completed([race EXCEPT !.tasks[i] = IF ok THEN "ok" ELSE "failed",
                                         !.sock[i] = ok],
                            i, ok)
    /\ UNCHANGED <<pool_open, maxsize, block, port, slots, holder, hold_lock, pmap,
                   conns, prom, num_connections, num_requests, disabled_svn, fr, ret,
                   call, maxsize0, extensions, happy_eyeballs, background_monitoring,
                   background_monitoring_stop, watch, resolver, lookup,
                   description, clears>>

\* lines 628-634: every task but the winner is cancelled when it is running,
\* which leaves a running task as it is, and has its challenger closed
\* otherwise
Cancelled(r) ==
    [r EXCEPT !.sock = [i \in 1..Len(r.tasks) |->
                           IF i = r.winning_task \/ r.tasks[i] = "running"
                           THEN r.sock[i] ELSE FALSE]]

\* an error that chains the exception of the last attempt
RaceErrorLast(r) ==
    [cause |-> r.targets[Len(r.targets)], deadline |-> r.override_timeout]

\* lines 636-643: NewConnectionError(...) from tasks[0].exception(), its
\* message ending in " within {override_timeout}s"; an exception is known by
\* the address whose attempt raised it
RaceError(r) == [cause |-> r.targets[1], deadline |-> r.override_timeout]

\* lines 625-651: event.wait() returns; the losers are dealt with, and
\* _new_conn goes on with the winner's connection or raises
RaceEnd(t) ==
    /\ fr[t].pc = "nc_wait"
    /\ race.event
    /\ LET c == fr[t].conn
           r == Cancelled(race)
       IN
       IF r.winning_task = 0
       THEN /\ race' = [r EXCEPT !.phase = "raised", !.error = RaceError(r)]
            /\ SetFrame(t, Done(fr[t], "NewConnectionError"))
            \* locate_or_hold is left by the exception: nothing is installed
            /\ hold_lock' = NoThread
            /\ holder' = [holder EXCEPT ![c] = NoThread]
            /\ conns' = conns
       ELSE /\ race' = [r EXCEPT !.phase = "returned"]
            /\ SetFrame(t, [fr[t] EXCEPT !.pc = "nc_swap"])
            /\ \E v \in SvnChoices(c) : conns' = [conns EXCEPT ![c] = Connected(v)]
            /\ UNCHANGED <<hold_lock, holder>>
    /\ UNCHANGED <<pool_open, maxsize, block, port, slots, pmap, prom,
                   num_connections, num_requests, disabled_svn, call, maxsize0,
                   extensions, happy_eyeballs, background_monitoring,
                   background_monitoring_stop, watch, resolver, lookup,
                   description, clears>>

(* ----------------------- idle_conn_watch_task ------------------------- *)
\* durations are counted in half seconds; NoDelay stands for None
NoDelay == -1
OneSecond == 2

\* the pool has no keepalive task (background_watch_delay=None)
NoWatch ==
    [pc |-> "off", waiting_delay |-> 0, slept_period |-> 0,
     num_background_watch_iter |-> 0, num_pings |-> 0, peeked |-> {},
     seen |-> {}, conn |-> NoConn, proxy |-> "alive", caught |-> "none",
     raised |-> "none", keepalive_delay |-> NoDelay,
     keepalive_idle_window |-> NoDelay, idle_delay |-> 0,
     since_connection_delay |-> NoDelay, background_watch_delay |-> NoDelay]

\* the task of a pool built with background_watch_delay = delay, counted in
\* units of MINIMAL_BACKGROUND_WATCH_WINDOW, about to test its while condition
WatchOf(delay) ==
    [NoWatch EXCEPT !.pc = "loop", !.waiting_delay = delay,
                    !.background_watch_delay = delay]

\* lines 23-27: the two minima of the constructor, in the unit of the sleep
\* increment; "forbid any keepalive idle window <1s"
MINIMAL_BACKGROUND_WATCH_WINDOW == 1
MINIMAL_KEEPALIVE_IDLE_WINDOW == OneSecond

MonitorStartedWhenSet(background_watch_delay) == background_watch_delay # NoDelay

\* lines 439-442: the test that decides whether a monitor thread is started
MonitorStarted(background_watch_delay) ==
    /\ background_watch_delay # NoDelay
    /\ background_watch_delay >= MINIMAL_BACKGROUND_WATCH_WINDOW

IdleWindowAsGiven(keepalive_idle_window) == keepalive_idle_window

\* lines 444-448: an idle window under the minimum is raised to it
IdleWindowOf(keepalive_idle_window) ==
    IF keepalive_idle_window # NoDelay
       /\ keepalive_idle_window < MINIMAL_KEEPALIVE_IDLE_WINDOW
    THEN MINIMAL_KEEPALIVE_IDLE_WINDOW ELSE keepalive_idle_window

\* lines 452-456: a watch delay over the idle window is lowered to it
WatchDelayOf(background_watch_delay, keepalive_idle_window) ==
    IF IdleWindowOf(keepalive_idle_window) # NoDelay
       /\ background_watch_delay > IdleWindowOf(keepalive_idle_window)
    THEN IdleWindowOf(keepalive_idle_window) ELSE background_watch_delay

\* lines 439-470: the task the constructor starts, with the arguments it is
\* given, or none; background_watch_delay keeps the constructor's argument
MonitorOf(background_watch_delay, keepalive_delay, keepalive_idle_window) ==
    IF MonitorStarted(background_watch_delay)
    THEN [WatchOf(WatchDelayOf(background_watch_delay, keepalive_idle_window))
             EXCEPT !.keepalive_delay = keepalive_delay,
                    !.keepalive_idle_window = IdleWindowOf(keepalive_idle_window),
                    !.background_watch_delay = background_watch_delay]
    ELSE [NoWatch EXCEPT !.background_watch_delay = background_watch_delay]

\* a task that sleeps its whole window before it looks at the stop flag
AfterSleepWholeWindow(w, stop) ==
    IF w.slept_period + 1 < w.waiting_delay
    THEN [w EXCEPT !.slept_period = @ + 1]
    ELSE [w EXCEPT !.slept_period = @ + 1, !.pc = "awake"]

\* lines 163-168: one sleep(MINIMAL_BACKGROUND_WATCH_WINDOW) of the inner
\* loop has returned
AfterSleep(w, stop) ==
    IF stop THEN [w EXCEPT !.slept_period = @ + 1, !.pc = "returned"]
    ELSE IF w.slept_period + 1 < w.waiting_delay
    THEN [w EXCEPT !.slept_period = @ + 1]
    ELSE [w EXCEPT !.slept_period = @ + 1, !.pc = "awake"]

\* TrafficPolice.iter_idle, less the connections line 188 skips
\* ("conn.is_connected is False")
IdleConnected ==
    {c \in slots : holder[c] = NoThread /\ is_idle(c) /\ ~is_closed(c)}

WatchUnchanged ==
    UNCHANGED <<pool_open, maxsize, block, port, slots, holder, hold_lock, pmap,
                conns, prom, num_connections, num_requests, disabled_svn, fr, ret,
                call, maxsize0, extensions, happy_eyeballs, race,
                background_monitoring, background_monitoring_stop, resolver, lookup,
                description, clears>>

\* lines 159-161: the test of the outer loop, and the start of a cycle
\* (explored for MaxWatchIter cycles)
WatchLoop(cycles) ==
    /\ watch.pc = "loop"
    /\ watch' = IF background_monitoring_stop THEN [watch EXCEPT !.pc = "returned"]
                ELSE [watch EXCEPT !.num_background_watch_iter = @ + 1,
                                   !.slept_period = 0,
                                   !.pc = IF 0 < watch.waiting_delay THEN "sleep"
                                          ELSE "awake"]
    /\ background_monitoring_stop \/ watch.num_background_watch_iter < cycles
    /\ WatchUnchanged

\* lines 163-168: a sleep increment ends
WatchSleep ==
    /\ watch.pc = "sleep"
    /\ watch' = AfterSleep(watch, background_monitoring_stop)
    /\ WatchUnchanged

\* lines 179-184: the checks made after the window has been slept
WatchAwake ==
    /\ watch.pc = "awake"
    /\ watch' = [watch EXCEPT !.pc = IF background_monitoring_stop \/ ~pool_open
                                     THEN "returned" ELSE "scan"]
    /\ WatchUnchanged

\* lines 186-221: the pass over the idle connections; those idle for a
\* second or more are peeked, and pinged when their keepalive is due; a pool
\* closed by now ends the task (AttributeError)
WatchScan ==
    /\ watch.pc = "scan"
    /\ IF ~pool_open
       THEN watch' = [watch EXCEPT !.pc = "returned"]
       ELSE \E peeked \in SUBSET IdleConnected : \E pinged \in SUBSET peeked :
               watch' = [watch EXCEPT !.pc = "loop", !.peeked = peeked,
                                      !.num_pings = @ + Cardinality(pinged)]
    /\ WatchUnchanged

(* ------------- the task, close() and the collector, in steps ---------- *)
\* an exception that reaches the handlers of the task but misses them
WatchRaisesUncaught(w, e, inner) == [w EXCEPT !.pc = "raised", !.raised = e]

\* exception e raised inside the task, within the inner try (lines 186-217)
\* or outside of it: "except AttributeError: return" (lines 218-219) and
\* "except ReferenceError: return" (lines 220-221) end the task, anything
\* else leaves it as the exception that killed the thread
WatchRaises(w, e, inner) ==
    IF e = "ReferenceError" \/ (e = "AttributeError" /\ inner)
    THEN [w EXCEPT !.pc = "returned", !.caught = e]
    ELSE [w EXCEPT !.pc = "raised", !.raised = e]

\* the pool behind proxy(self) (line 461) has been garbage-collected: every
\* use of the proxy raises ReferenceError
Collected == watch.proxy = "dead"

\* lines 159-161 behind the proxy
TaskLoop(cycles) ==
    /\ watch.pc = "loop"
    /\ IF Collected
       THEN watch' = WatchRaises(watch, "ReferenceError", FALSE) /\ WatchUnchanged
       ELSE WatchLoop(cycles)

\* lines 163-168 behind the proxy
TaskSleep ==
    /\ watch.pc = "sleep"
    /\ IF Collected
       THEN watch' = WatchRaises(watch, "ReferenceError", FALSE) /\ WatchUnchanged
       ELSE WatchSleep

\* lines 179-184 behind the proxy
TaskAwake ==
    /\ watch.pc = "awake"
    /\ IF Collected
       THEN watch' = WatchRaises(watch, "ReferenceError", FALSE) /\ WatchUnchanged
       ELSE WatchAwake

\* line 187, "pool.pool.iter_idle()": pool.pool is None once close() has
\* begun
TaskIter ==
    /\ watch.pc = "scan"
    /\ watch' = IF Collected THEN WatchRaises(watch, "ReferenceError", TRUE)
                ELSE IF ~pool_open THEN WatchRaises(watch, "AttributeError", TRUE)
                ELSE [watch EXCEPT !.pc = "next", !.seen = {}, !.peeked = {}]
    /\ WatchUnchanged

\* line 187, "for conn in ...": TrafficPolice.iter_idle gives the next idle
\* connection of the slot manager the pass began with, or ends
TaskNext ==
    /\ watch.pc = "next"
    /\ LET idle == {c \in slots : holder[c] = NoThread /\ is_idle(c)} \ watch.seen IN
       \/ \E c \in idle :
             watch' = [watch EXCEPT !.pc = "conn", !.conn = c, !.seen = @ \cup {c}]
       \/ /\ idle = {}
          /\ watch' = [watch EXCEPT !.pc = "loop"]
    /\ WatchUnchanged

\* lines 188-198: a connection that is not connected, or that became idle
\* under a second ago, is passed over
TaskConn ==
    /\ watch.pc = "conn"
    /\ \/ /\ is_closed(watch.conn)
          /\ watch' = [watch EXCEPT !.pc = "next"]
       \/ /\ ~is_closed(watch.conn)
          /\ \E fresh \in BOOLEAN :
                watch' = [watch EXCEPT !.pc = IF fresh THEN "next" ELSE "peek"]
    /\ WatchUnchanged

\* what a call on a connection does to the task: on a connection that
\* close() has torn down meanwhile it finds nothing to read, or trips over
\* the socket that is gone
ConnCall(c) == IF is_closed(c) THEN {"none", "AttributeError"} ELSE {"none"}

\* line 200: conn.peek_and_react()
TaskPeek ==
    /\ watch.pc = "peek"
    /\ \E e \in ConnCall(watch.conn) :
          watch' = IF e # "none" THEN WatchRaises(watch, e, TRUE)
                   ELSE [watch EXCEPT !.pc = "keepalive", !.peeked = @ \cup {watch.conn}]
    /\ WatchUnchanged

\* lines 202-214: is a ping due? "pool.num_pings += 1" goes through the
\* proxy
TaskKeepalive ==
    /\ watch.pc = "keepalive"
    /\ \E due \in BOOLEAN :
          watch' = IF ~due THEN [watch EXCEPT !.pc = "next"]
                   ELSE IF Collected THEN WatchRaises(watch, "ReferenceError", TRUE)
                   ELSE [watch EXCEPT !.pc = "ping", !.num_pings = @ + 1]
    /\ WatchUnchanged

\* lines 215-216: conn.ping(); conn.peek_and_react(expect_frame=True)
TaskPing ==
    /\ watch.pc = "ping"
    /\ \E e \in ConnCall(watch.conn) :
          watch' = IF e # "none" THEN WatchRaises(watch, e, TRUE)
                   ELSE [watch EXCEPT !.pc = "next"]
    /\ WatchUnchanged

\* a task that pings whatever has been idle long enough, however old the
\* connection is
PingDueAtAnyAge(w) ==
    /\ w.keepalive_delay # NoDelay /\ w.keepalive_idle_window # NoDelay
    /\ w.since_connection_delay # NoDelay
    /\ w.idle_delay >= w.keepalive_idle_window

\* lines 202-213: the tests that guard the ping, on the locals of the task
PingDue(w) ==
    /\ w.keepalive_delay # NoDelay /\ w.keepalive_idle_window # NoDelay
    /\ w.since_connection_delay # NoDelay
    /\ w.since_connection_delay <= w.keepalive_delay
    /\ w.idle_delay >= w.keepalive_idle_window

\* lines 188-198 with the clock read: "idle_delay = now - last_used" is one
\* of delays
TaskMeasure(delays) ==
    /\ watch.pc = "conn"
    /\ \/ /\ is_closed(watch.conn)
          /\ watch' = [watch EXCEPT !.pc = "next"]
       \/ /\ ~is_closed(watch.conn)
          /\ \E d \in delays :
                watch' = [watch EXCEPT !.idle_delay = d,
                                       !.pc = IF d < OneSecond THEN "next" ELSE "peek"]
    /\ WatchUnchanged

\* lines 202-214: "since_connection_delay = now - connected_at", one of
\* delays unless connected_at is None, and the count of the ping
TaskDue(delays) ==
    /\ watch.pc = "keepalive"
    /\ \E since \in delays \cup {NoDelay} :
          LET w == [watch EXCEPT !.since_connection_delay =
                        IF watch.keepalive_delay # NoDelay
                           /\ watch.keepalive_idle_window # NoDelay
                        THEN since ELSE @]
          IN  watch' = IF PingDue(w)
                       THEN [w EXCEPT !.pc = "ping", !.num_pings = @ + 1]
                       ELSE [w EXCEPT !.pc = "next"]
    /\ WatchUnchanged

\* line 215: conn.ping()
TaskSendPing ==
    /\ watch.pc = "ping"
    /\ watch' = [watch EXCEPT !.pc = "frame"]
    /\ WatchUnchanged

\* line 216: conn.peek_and_react(expect_frame=True)
TaskPeekFrame ==
    /\ watch.pc = "frame"
    /\ watch' = [watch EXCEPT !.pc = "next"]
    /\ WatchUnchanged

\* a step of the task, followed for so many cycles
Task(cycles) ==
    \/ TaskLoop(cycles) \/ TaskSleep \/ TaskAwake \/ TaskIter \/ TaskNext \/ TaskConn
    \/ TaskPeek \/ TaskKeepalive \/ TaskPing

\* close(), lines 1396-1400: "old_pool, self.pool = self.pool, None"
CloseNull(t) ==
    /\ Ready(t) /\ ~Collected
    /\ IF ~pool_open
       THEN /\ SetFrame(t, Done(Call("close"), "returned"))
            /\ pool_open' = pool_open
       ELSE /\ SetFrame(t, [Call("close") EXCEPT !.pc = "cl_clear"])
            /\ pool_open' = FALSE
    /\ UNCHANGED <<maxsize, block, port, slots, holder, hold_lock, pmap, conns, prom,
                   num_connections, num_requests, disabled_svn, call, maxsize0,
                   extensions>>
    /\ UNCHANGED sidevars

\* close(), line 1403: old_pool.clear() closes and evicts every connection
CloseClear(t) ==
    /\ fr[t].pc = "cl_clear"
    /\ slots' = {}
    /\ pmap' = [p \in PromiseIds |-> NoConn]
    /\ hold_lock' = NoThread
    /\ conns' = [c \in ConnIds |->
                    IF c \in slots /\ holder[c] = NoThread THEN FreeConn
                    ELSE IF c \in slots THEN [conns[c] EXCEPT !.st = "closed"]
                    ELSE conns[c]]
    /\ prom' = Orphan(slots)
    /\ clears' = clears + 1
    /\ SetFrame(t, [fr[t] EXCEPT !.pc = "cl_stop"])
    /\ UNCHANGED <<pool_open, maxsize, block, port, holder, num_connections,
                   num_requests, disabled_svn, call, maxsize0, extensions,
                   happy_eyeballs, race, background_monitoring,
                   background_monitoring_stop, watch, resolver, lookup, description>>

\* close(), lines 1407-1413: the stop flag of the task, the resolver
CloseStop(t) ==
    /\ fr[t].pc = "cl_stop"
    /\ background_monitoring_stop' = (background_monitoring_stop \/ background_monitoring)
    /\ background_monitoring' = FALSE
    /\ resolver' = IF resolver.own /\ resolver.available
                   THEN [resolver EXCEPT !.available = FALSE] ELSE resolver
    /\ SetFrame(t, Done(fr[t], "returned"))
    /\ UNCHANGED <<pool_open, maxsize, block, port, slots, holder, hold_lock, pmap,
                   conns, prom, num_connections, num_requests, disabled_svn, call,
                   maxsize0, extensions, happy_eyeballs, race, watch, lookup,
                   description, clears>>

\* the last reference to the pool is dropped while nobody is inside a call:
\* the pool is garbage-collected, its task is left with a dead proxy
Collect ==
    /\ \A t \in Threads : Ready(t)
    /\ ~Collected /\ watch.pc # "off"
    /\ watch' = [watch EXCEPT !.proxy = "dead"]
    /\ WatchUnchanged

\* close() instruction by instruction, for callers that race.
\* Lines 1396-1397: "if self.pool is None: return"
CloseTest(t) ==
    /\ Ready(t)
    /\ SetFrame(t, IF pool_open THEN [Call("close") EXCEPT !.pc = "cl_load"]
                   ELSE Done(Call("close"), "returned"))
    /\ UNCHANGED <<pool_open, maxsize, block, port, slots, holder, hold_lock, pmap,
                   conns, prom, num_connections, num_requests, disabled_svn, call,
                   maxsize0, extensions>>
    /\ UNCHANGED sidevars

\* line 1400, right-hand side: the value of self.pool that becomes old_pool
CloseLoad(t) ==
    /\ fr[t].pc = "cl_load"
    /\ SetFrame(t, [fr[t] EXCEPT !.pc = IF pool_open THEN "cl_store"
                                        ELSE "cl_store_none"])
    /\ UNCHANGED <<pool_open, maxsize, block, port, slots, holder, hold_lock, pmap,
                   conns, prom, num_connections, num_requests, disabled_svn, call,
                   maxsize0, extensions>>
    /\ UNCHANGED sidevars

\* line 1400, left-hand side: "self.pool = None"
CloseStore(t) ==
    /\ fr[t].pc \in {"cl_store", "cl_store_none"}
    /\ pool_open' = FALSE
    /\ SetFrame(t, [fr[t] EXCEPT !.pc = IF fr[t].pc = "cl_store" THEN "cl_clear"
                                        ELSE "cl_clear_none"])
    /\ UNCHANGED <<maxsize, block, port, slots, holder, hold_lock, pmap, conns, prom,
                   num_connections, num_requests, disabled_svn, call, maxsize0,
                   extensions>>
    /\ UNCHANGED sidevars

\* line 1403 with old_pool None: "'NoneType' object has no attribute 'clear'"
CloseClearNone(t) ==
    /\ fr[t].pc = "cl_clear_none"
    /\ SetFrame(t, Done(fr[t], "AttributeError"))
    /\ UNCHANGED <<pool_open, maxsize, block, port, slots, holder, hold_lock, pmap,
                   conns, prom, num_connections, num_requests, disabled_svn, call,
                   maxsize0, extensions>>
    /\ UNCHANGED sidevars

(* ------------------------------ resolver ------------------------------ *)
\* a pool that takes every resolver for its own
OwnsAlways(kind) == TRUE

\* line 382: self._own_resolver = not isinstance(resolver, BaseResolver);
\* kind is what __init__ was given: None, a url, a ResolverDescription, a
\* list of them, or a BaseResolver instance
OwnResolver(kind) == kind # "instance"

ResolverKinds == {"none", "url", "description", "list", "instance"}

\* lines 382-433: self._resolver; the ManyResolver the pool builds is
\* available, an injected resolver is in the state its owner left it
PoolResolver(kind, available) ==
    [kind |-> kind, own |-> OwnResolver(kind), available |-> available]

(* --------------------- NullResolver.getaddrinfo ----------------------- *)
AF_UNSPEC == "AF_UNSPEC"
Families == {AF_UNSPEC, AF_INET, AF_INET6}
SocketKinds == {"SOCK_STREAM", "SOCK_DGRAM"}

\* host arguments: None, a str, or bytes holding ASCII text
NoHost == [kind |-> "none", text |-> ""]
StrHost(text) == [kind |-> "str", text |-> text]
BytesHost(text) == [kind |-> "bytes", text |-> text]
IPv4Literals == {"127.0.0.1", "10.0.0.7"}
IPv6Literals == {"::1", "2001:db8::7"}
HostNames == {"localhost", "example.org"}
Hosts ==
    {NoHost} \cup {StrHost(x) : x \in IPv4Literals \cup IPv6Literals \cup HostNames}
             \cup {BytesHost(x) : x \in IPv4Literals \cup IPv6Literals \cup HostNames}

\* port arguments: None, an int, or a str of digits
NoPort == [kind |-> "none", val |-> 0]
IntPort(n) == [kind |-> "int", val |-> n]
StrPort(n) == [kind |-> "str", val |-> n]
Ports == {NoPort} \cup {IntPort(n) : n \in {-1, 0, 443}} \cup {StrPort(n) : n \in {0, 443}}

\* utils.is_ipv4 / utils.is_ipv6 on a str
is_ipv4(text) == text \in IPv4Literals
is_ipv6(text) == text \in IPv6Literals

\* what getaddrinfo returns (entries) or raises
Returned(entries) == [raised |-> "none", entries |-> entries]
Raised(e) == [raised |-> e, entries |-> <<>>]

\* lines 51-52 and 62-63: the host as a str
HostText(host) == IF host.kind = "none" THEN "localhost" ELSE host.text
\* lines 54-57: the port as an int
PortNumber(p) == IF p.kind = "none" THEN 0 ELSE p.val

\* a resolver that answers a literal whatever family is asked for
getaddrinfo_any_family(host, p, family, type) ==
    IF PortNumber(p) < 0 THEN Raised("gaierror")
    ELSE IF is_ipv4(HostText(host))
    THEN Returned(<<[family |-> AF_INET, type |-> type, proto |-> 6, canonname |-> "",
                     sockaddr |-> <<HostText(host), PortNumber(p)>>]>>)
    ELSE IF is_ipv6(HostText(host))
    THEN Returned(<<[family |-> AF_INET6, type |-> type, proto |-> 17, canonname |-> "",
                     sockaddr |-> <<HostText(host), PortNumber(p), 0, 0>>]>>)
    ELSE Raised("gaierror")

\* lines 31-102: NullResolver.getaddrinfo(host, port, family, type)
getaddrinfo(host, p, family, type) ==
    IF PortNumber(p) < 0 THEN Raised("gaierror")
    ELSE IF is_ipv4(HostText(host))
    THEN IF family = AF_INET6 THEN Raised("gaierror")
         ELSE Returned(<<[family |-> AF_INET, type |-> type, proto |-> 6,
                          canonname |-> "",
                          sockaddr |-> <<HostText(host), PortNumber(p)>>]>>)
    ELSE IF is_ipv6(HostText(host))
    THEN IF family = AF_INET THEN Raised("gaierror")
         ELSE Returned(<<[family |-> AF_INET6, type |-> type, proto |-> 17,
                          canonname |-> "",
                          sockaddr |-> <<HostText(host), PortNumber(p), 0, 0>>]>>)
    ELSE Raised("gaierror")

\* no call made yet
NoLookup ==
    [host |-> NoHost, port |-> NoPort, family |-> AF_UNSPEC, type |-> "SOCK_STREAM",
     calls |-> 0, result |-> Returned(<<>>)]

\* one call of NullResolver().getaddrinfo on arguments of its types
NullGetaddrinfo ==
    /\ \E host \in Hosts : \E p \in Ports : \E family \in Families :
       \E type \in SocketKinds :
          lookup' = [host |-> host, port |-> p, family |-> family, type |-> type,
                     calls |-> 1,
                     result |-> getaddrinfo(host, p, family, type)]
    /\ UNCHANGED <<pool_open, maxsize, block, port, slots, holder, hold_lock, pmap,
                   conns, prom, num_connections, num_requests, disabled_svn, fr, ret,
                   call, maxsize0, extensions, happy_eyeballs, race,
                   background_monitoring, background_monitoring_stop, watch,
                   resolver, description, clears>>

(* ---------------- ResolverDescription.from_url ------------------------- *)
\* urllib3/contrib/resolver/factories.py.  A str is the sequence of its
\* characters; a dict is the function from its keys to its values.
UpperCase == <<"A", "B", "C", "D", "E", "F", "G", "H", "I", "J", "K", "L", "M",
               "N", "O", "P", "Q", "R", "S", "T", "U", "V", "W", "X", "Y", "Z">>
LowerCase == <<"a", "b", "c", "d", "e", "f", "g", "h", "i", "j", "k", "l", "m",
               "n", "o", "p", "q", "r", "s", "t", "u", "v", "w", "x", "y", "z">>
DecimalDigits == <<"0", "1", "2", "3", "4", "5", "6", "7", "8", "9">>

\* str.lower() on one character
lower_char(c) ==
    IF \E i \in DOMAIN UpperCase : UpperCase[i] = c
    THEN LowerCase[CHOOSE i \in DOMAIN UpperCase : UpperCase[i] = c]
    ELSE c

\* str.lower()
lower(s) == [i \in 1..Len(s) |-> lower_char(s[i])]

\* ch in s
Contains(s, ch) == \E i \in 1..Len(s) : s[i] = ch

\* s.strip(ch)
strip(s, ch) ==
    LET kept == {i \in 1..Len(s) : s[i] # ch}
    IN  IF kept = {} THEN <<>>
        ELSE SubSeq(s, CHOOSE i \in kept : \A j \in kept : i <= j,
                       CHOOSE i \in kept : \A j \in kept : i >= j)

\* s.split(sep): the parts between the separators, empty ones included
RECURSIVE split(_, _)
split(s, sep) ==
    IF ~Contains(s, sep) THEN <<s>>
    ELSE LET i == CHOOSE k \in 1..Len(s) :
                      s[k] = sep /\ \A j \in 1..(k - 1) : s[j] # sep
         IN  <<SubSeq(s, 1, i - 1)>> \o split(SubSeq(s, i + 1, Len(s)), sep)

\* s.isdigit(), for ASCII text
isdigit(s) ==
    s # <<>> /\ \A i \in 1..Len(s) : \E d \in DOMAIN DecimalDigits : DecimalDigits[d] = s[i]

\* s.count(ch)
count(s, ch) == Cardinality({i \in 1..Len(s) : s[i] = ch})

\* s.replace(ch, "")
remove(s, ch) == SelectSeq(s, LAMBDA c : c # ch)

\* int(s) for a str of digits ("" counts 0 here, float("1.") has no fraction)
RECURSIVE int(_)
int(s) ==
    IF s = <<>> THEN 0
    ELSE 10 * int(SubSeq(s, 1, Len(s) - 1))
         + (CHOOSE d \in DOMAIN DecimalDigits : DecimalDigits[d] = s[Len(s)]) - 1

\* the Python values an option can hold
PyStr(s) == [str |-> s]
PyBool(b) == [bool |-> b]
PyInt(n) == [int |-> n]
PyList(items) == [list |-> items]
PyNone == [none |-> TRUE]
IsStr(v) == DOMAIN v = {"str"}
IsList(v) == DOMAIN v = {"list"}

\* float(s) for digits "." digits: the whole part, and the digits of the
\* fraction without its trailing zeros
PyFloat(s) ==
    LET parts == split(s, ".")
        kept == {i \in 1..Len(parts[2]) : parts[2][i] # "0"}
    IN  [float |-> <<int(parts[1]),
                     SubSeq(parts[2], 1,
                            IF kept = {} THEN 0
                            ELSE CHOOSE i \in kept : \A j \in kept : i >= j)>>]

\* lines 195-210: a scalar that looks like a bool, an int or a float is
\* converted, anything else stays the str it is
Coerce(value) ==
    IF value \in {<<"f", "a", "l", "s", "e">>, <<"t", "r", "u", "e">>}
    THEN PyBool(value = <<"t", "r", "u", "e">>)
    ELSE IF isdigit(value) THEN PyInt(int(value))
    ELSE IF count(value, ".") = 1 /\ value[1] # "." /\ isdigit(remove(value, "."))
    THEN PyFloat(value)
    ELSE PyStr(value)

\* kwargs[key] = value
SetItem(kwargs, key, value) ==
    [k \in (DOMAIN kwargs) \cup {key} |-> IF k = key THEN value ELSE kwargs[k]]

EmptyDict == [k \in {} |-> PyNone]

\* the names from_url and ResolverDescription.__init__ give a meaning to
K_implementation ==
    <<"i", "m", "p", "l", "e", "m", "e", "n", "t", "a", "t", "i", "o", "n">>
K_hosts == <<"h", "o", "s", "t", "s">>
K_path == <<"p", "a", "t", "h">>
K_protocol == <<"p", "r", "o", "t", "o", "c", "o", "l">>
K_specifier == <<"s", "p", "e", "c", "i", "f", "i", "e", "r">>
K_server == <<"s", "e", "r", "v", "e", "r">>
K_port == <<"p", "o", "r", "t">>

\* lines 157-163: the values of a repeated parameter, each split at its commas
RECURSIVE Flatten(_)
Flatten(values) ==
    IF values = <<>> THEN <<>>
    ELSE (IF Contains(Head(values), ",")
          THEN [i \in 1..Len(split(Head(values), ",")) |->
                    PyStr(split(Head(values), ",")[i])]
          ELSE <<PyStr(Head(values))>>) \o Flatten(Tail(values))

\* lines 144-210: one turn of the loop over parse_qs(parsed_url.query);
\* acc holds kwargs, implementation and the exception raised so far
QueryParameter(acc, parameter, values) ==
    LET parameter_insensible == lower(parameter)
        kwargs == acc.kwargs
    IN  IF acc.raised # "none" \/ values = <<>> THEN acc
        ELSE IF Len(values) > 1
        THEN IF parameter = K_implementation
             THEN [acc EXCEPT !.raised = "ValueError"]
             ELSE [acc EXCEPT !.kwargs =
                      IF parameter_insensible \in DOMAIN kwargs
                      THEN IF IsList(kwargs[parameter_insensible])
                           THEN SetItem(kwargs, parameter_insensible,
                                    PyList(kwargs[parameter_insensible].list
                                         \o Flatten(values)))
                           ELSE SetItem(kwargs, parameter_insensible,
                                    PyList(Append(Flatten(values),
                                                kwargs[parameter_insensible])))
                      ELSE SetItem(kwargs, parameter_insensible,
                                   PyList(Flatten(values)))]
        ELSE LET value == strip(lower(values[1]), " ")
             IN  IF parameter = K_implementation
                 THEN [acc EXCEPT !.implementation = PyStr(value)]
                 ELSE IF Contains(value, ",")
                 THEN [acc EXCEPT !.kwargs =
                          IF parameter_insensible \in DOMAIN kwargs
                          THEN IF IsList(kwargs[parameter_insensible])
                               THEN SetItem(kwargs, parameter_insensible,
                                        PyList(kwargs[parameter_insensible].list
                                             \o Flatten(<<value>>)))
                               \* line 189 appends the old value to a list
                               \* that line 190 then drops
                               ELSE kwargs
                          ELSE SetItem(kwargs, parameter_insensible,
                                       PyList(Flatten(<<value>>)))]
                 ELSE [acc EXCEPT !.kwargs =
                          SetItem(kwargs, parameter_insensible, Coerce(value))]

\* the loop of lines 144-210 over the parameters, in the order of the query
RECURSIVE QueryParameters(_, _)
QueryParameters(acc, parameters) ==
    IF parameters = <<>> THEN acc
    ELSE QueryParameters(
             QueryParameter(acc, Head(parameters).name, Head(parameters).values),
             Tail(parameters))

\* ResolverDescription(protocol, specifier, implementation, server, port,
\* *host_patterns, **kwargs): a keyword that names one of the five
\* positional parameters is a TypeError ("got multiple values for argument")
NewDescription(protocol, specifier, implementation, server, p, host_patterns, kwargs) ==
    IF (DOMAIN kwargs) \cap {K_protocol, K_specifier, K_implementation,
                             K_server, K_port} # {}
    THEN [raised |-> "TypeError"]
    ELSE [raised |-> "none", protocol |-> protocol, specifier |-> specifier,
          implementation |-> implementation, server |-> server, port |-> p,
          host_patterns |-> host_patterns, kwargs |-> kwargs]

\* ResolverDescription.from_url, on the parts parse_url(url) gives and with
\* parameters = parse_qs(parsed_url.query); urls carry no credentials here
from_url(url) ==
    IF url.scheme = PyNone THEN [raised |-> "ValueError"]
    ELSE
    LET plus == Contains(url.scheme.str, "+")
        schema == IF plus THEN split(lower(url.scheme.str), "+")[1]
                  ELSE url.scheme.str
        specifier == IF plus
                     THEN LET low == lower(url.scheme.str)
                          IN  PyStr(SubSeq(low, Len(schema) + 2, Len(low)))
                     ELSE PyNone
        kwargs0 == IF url.path # <<>>
                   THEN SetItem(EmptyDict, K_path, PyStr(url.path)) ELSE EmptyDict
        acc == QueryParameters(
                   [kwargs |-> kwargs0, implementation |-> PyNone, raised |-> "none"],
                   url.parameters)
        has_hosts == K_hosts \in DOMAIN acc.kwargs
        kwargs == [k \in (DOMAIN acc.kwargs) \ {K_hosts} |-> acc.kwargs[k]]
    IN  IF acc.raised # "none" THEN [raised |-> acc.raised]
        ELSE IF has_hosts /\ ~IsStr(acc.kwargs[K_hosts]) /\ ~IsList(acc.kwargs[K_hosts])
        THEN [raised |-> "TypeError"]    \* *host_patterns of a bool or a number
        ELSE NewDescription(PyStr(schema), specifier, acc.implementation,
                 url.host, url.port,
                 IF ~has_hosts THEN <<>>
                 ELSE IF IsStr(acc.kwargs[K_hosts])
                      THEN Flatten(<<acc.kwargs[K_hosts].str>>)
                      ELSE acc.kwargs[K_hosts].list,
                 kwargs)

\* no call made
NoDescription == [calls |-> 0, url |-> PyNone, result |-> PyNone]

\* the call of ResolverDescription.from_url on the url at hand
FromUrl ==
    /\ description.calls = 0 /\ description.url # PyNone
    /\ description' = [description EXCEPT !.calls = 1,
                                          !.result = from_url(description.url)]
    /\ UNCHANGED <<pool_open, maxsize, block, port, slots, holder, hold_lock, pmap,
                   conns, prom, num_connections, num_requests, disabled_svn, fr, ret,
                   call, maxsize0, extensions, happy_eyeballs, race,
                   background_monitoring, background_monitoring_stop, watch,
                   resolver, lookup, clears>>

(* ------- _happy_eyeballs_completed, statement by statement ------------ *)
\* The done callbacks run on the worker threads with nothing to keep two of
\* them apart: winning_task, completed_count and event are shared, and
\* "completed_count += 1" is a read followed by a write.
RaceUnchanged ==
    UNCHANGED <<pool_open, maxsize, block, port, slots, holder, hold_lock, pmap,
                conns, prom, num_connections, num_requests, disabled_svn, fr, ret,
                call, maxsize0, extensions, happy_eyeballs, background_monitoring,
                background_monitoring_stop, watch, resolver, lookup, description, clears>>

\* challenger.connect of task i returns or raises: the future is done and
\* its worker enters the callback
ConnectEnds(i, outcomes) ==
    /\ i \in RaceTasks /\ race.tasks[i] = "running"
    /\ \E ok \in outcomes :
          race' = [race EXCEPT !.tasks[i] = IF ok THEN "ok" ELSE "failed",
                               !.sock[i] = ok, !.callback[i] = "604"]
    /\ RaceUnchanged

\* line 604: if winning_task is None and t.exception() is None
CallbackTest(i) ==
    /\ i \in RaceTasks /\ race.callback[i] = "604"
    /\ race' = [race EXCEPT !.callback[i] =
                    IF race.winning_task = 0 /\ race.tasks[i] = "ok"
                    THEN "605" ELSE "610"]
    /\ RaceUnchanged

\* line 605: winning_task = t
CallbackWins(i) ==
    /\ i \in RaceTasks /\ race.callback[i] = "605"
    /\ race' = [race EXCEPT !.winning_task = i, !.callback[i] = "606"]
    /\ RaceUnchanged

\* lines 606-608: event.set(); return
CallbackSignals(i) ==
    /\ i \in RaceTasks /\ race.callback[i] = "606"
    /\ race' = [race EXCEPT !.event = TRUE, !.callback[i] = "returned"]
    /\ RaceUnchanged

\* line 610, first half: the value of completed_count is read
CallbackLoads(i) ==
    /\ i \in RaceTasks /\ race.callback[i] = "610"
    /\ race' = [race EXCEPT !.loaded[i] = race.completed_count,
                            !.callback[i] = "610+"]
    /\ RaceUnchanged

\* line 610, second half: the value read, plus one, is written back
CallbackStores(i) ==
    /\ i \in RaceTasks /\ race.callback[i] = "610+"
    /\ race' = [race EXCEPT !.completed_count = race.loaded[i] + 1,
                            !.callback[i] = "612"]
    /\ RaceUnchanged

\* lines 612-613: if completed_count >= len(challengers): event.set()
CallbackCounts(i) ==
    /\ i \in RaceTasks /\ race.callback[i] = "612"
    /\ race' = [race EXCEPT !.event = @ \/ race.completed_count >= Len(race.tasks),
                            !.callback[i] = "returned"]
    /\ RaceUnchanged

\* what the worker of task i does, from taking the task to the end of its
\* callback
Worker(i) ==
    \/ TaskStart(i)
    \/ ConnectEnds(i, BOOLEAN)
    \/ CallbackTest(i)
    \/ CallbackWins(i)
    \/ CallbackSignals(i)
    \/ CallbackLoads(i)
    \/ CallbackStores(i)
    \/ CallbackCounts(i)

(* --------------------------- specifications --------------------------- *)
\* HTTPConnectionPool.__init__ with maxsize one of sizes
PoolOfSize(sizes) ==
    /\ pool_open = TRUE
    /\ maxsize \in sizes
    /\ maxsize0 = maxsize
    /\ block \in BOOLEAN
    /\ slots = {}
    /\ holder = [c \in ConnIds |-> NoThread]
    /\ hold_lock = NoThread
    /\ pmap = [p \in PromiseIds |-> NoConn]
    /\ conns = [c \in ConnIds |-> FreeConn]
    /\ prom = [p \in PromiseIds |-> FreePromise]
    /\ num_connections = 0
    /\ num_requests = 0
    /\ disabled_svn = {}
    /\ extensions = 0
    /\ fr = [t \in Threads |-> IdleFrame]
    /\ ret = NoRet
    /\ call = NoCall
    /\ race = NoRace
    /\ lookup = NoLookup

\* HTTPConnectionPool.__init__
InitPool == PoolOfSize(1..MaxSize)

\* the defaults of __init__: happy_eyeballs=False, background_watch_delay
\* that starts no task, resolver=None
InitDefaults ==
    /\ description = NoDescription
    /\ clears = 0
    /\ happy_eyeballs = HEBool(FALSE)
    /\ background_monitoring = FALSE
    /\ background_monitoring_stop = FALSE
    /\ watch = NoWatch
    /\ resolver = PoolResolver("none", TRUE)

\* threads acquiring and releasing connections of one pool
InitSlots == InitPool /\ InitDefaults /\ port = 80
NextSlots ==
    \E t \in Threads :
        \/ CallGetConn(t)
        \/ CallNewConn(t)
        \/ CallPutConn(t)
        \/ ForeignConn(t)
        \/ NewConnHold(t)
        \/ NewConnSwap(t)
        \/ PutConn(t)
SpecSlots == InitSlots /\ [][NextSlots]_vars

\* one caller dispatching requests with every retry configuration, over a
\* network that fails and answers in every way; close() at any point
\* between two calls
DispatchArgs ==
    Args({"GET"}, {{}}, {UrlPath, UrlB}, RetryConfigs, {TRUE}, {TRUE}, BOOLEAN, {TRUE})
DispatchErrs == {"NewConnectionError", "MustDowngradeError", "MustRedialError"}
DispatchResps ==
    {Resp(200, FALSE, UrlPath), Resp(503, FALSE, UrlPath), Resp(302, TRUE, UrlPath),
     Resp(302, TRUE, UrlB)}
Init == InitPool /\ InitDefaults /\ port = 80 /\ maxsize = 1
Next ==
    \/ CallUrlopen(Caller, DispatchArgs)
    \/ UrlopenEnter(Caller)
    \/ UrlopenRequest(Caller, DispatchErrs, DispatchResps)
    \/ UrlopenFinally(Caller)
    \/ CallGetResponse(Caller, DispatchErrs, DispatchResps)
    \/ GetResponse(Caller, DispatchErrs, DispatchResps)
    \/ CallGetConn(Caller)
    \/ CallNewConn(Caller)
    \/ CallPutConn(Caller)
    \/ NewConnHold(Caller)
    \/ NewConnSwap(Caller)
    \/ Close
Spec == Init /\ [][Next]_vars

\* one caller sending requests to urls of this and of other hosts, on pools
\* bound to the default port, to no port and to another port
HostArgs ==
    Args({"GET"}, {{}}, Urls, {RetryOf(MaxRetries, TRUE)}, {TRUE}, BOOLEAN, {FALSE},
         {TRUE})
HostErrs == {"NewConnectionError"}
HostResps == {Resp(200, FALSE, UrlPath), Resp(302, TRUE, UrlB), Resp(302, TRUE, UrlA80)}
InitHost == InitPool /\ InitDefaults /\ port \in {0, 80, 8080} /\ maxsize = 1
NextHost ==
    \/ CallUrlopen(Caller, HostArgs)
    \/ UrlopenEnter(Caller)
    \/ UrlopenRequest(Caller, HostErrs, HostResps)
    \/ UrlopenFinally(Caller)
    \/ NewConnHold(Caller)
    \/ NewConnSwap(Caller)
SpecHost == InitHost /\ [][NextHost]_vars

\* one caller whose requests are answered with redirects, read at once or
\* through get_response
RedirectArgs ==
    Args({"GET", "POST"}, {{"Accept"}, {"Accept", "Authorization", "Cookie"}},
         {UrlPath}, {RetryOf(MaxRetries, TRUE)}, {TRUE}, {TRUE}, BOOLEAN, {TRUE})
RedirectErrs == {}
RedirectResps ==
    {Resp(200, FALSE, UrlPath), Resp(302, TRUE, UrlPath), Resp(303, TRUE, UrlPath)}
InitRedirect == InitPool /\ InitDefaults /\ port = 80 /\ maxsize = 1 /\ block = FALSE
NextRedirect ==
    \/ CallUrlopen(Caller, RedirectArgs)
    \/ UrlopenEnter(Caller)
    \/ UrlopenRequest(Caller, RedirectErrs, RedirectResps)
    \/ UrlopenFinally(Caller)
    \/ CallGetResponse(Caller, RedirectErrs, RedirectResps)
    \/ GetResponse(Caller, RedirectErrs, RedirectResps)
    \/ NewConnHold(Caller)
    \/ NewConnSwap(Caller)
SpecRedirect == InitRedirect /\ [][NextRedirect]_vars

\* one caller whose requests are answered with redirects until the retry
\* budget is used up, with raise_on_redirect set and not set
CeilingArgs ==
    Args({"GET"}, {{}}, {UrlPath},
         {RetryOf(n, ror) : n \in 0..MaxRetries, ror \in BOOLEAN},
         {TRUE}, {TRUE}, BOOLEAN, {TRUE})
CeilingErrs == {}
CeilingResps == {Resp(200, FALSE, UrlPath), Resp(302, TRUE, UrlPath)}
InitCeiling == InitPool /\ InitDefaults /\ port = 80 /\ maxsize = 1 /\ block = FALSE
NextCeiling ==
    \/ CallUrlopen(Caller, CeilingArgs)
    \/ UrlopenEnter(Caller)
    \/ UrlopenRequest(Caller, CeilingErrs, CeilingResps)
    \/ UrlopenFinally(Caller)
    \/ CallGetResponse(Caller, CeilingErrs, CeilingResps)
    \/ GetResponse(Caller, CeilingErrs, CeilingResps)
    \/ NewConnHold(Caller)
    \/ NewConnSwap(Caller)
SpecCeiling == InitCeiling /\ [][NextCeiling]_vars

\* bounds of the connector's specifications: the longest resolved list
\* whose order is computed, and the longest whose race is run
MaxAddrs == 5
MaxRaceAddrs == 3

\* _new_conn up to the submission of the attempts, for every resolved list
\* and every value of happy_eyeballs
OrderLists == AddrLists(MaxAddrs)
OrderTimeouts == {NoTimeout}
InitOrder ==
    /\ description = NoDescription
    /\ clears = 0
    /\ InitPool /\ port = 80 /\ maxsize = 1 /\ block = FALSE
    /\ happy_eyeballs \in {HEBool(b) : b \in BOOLEAN} \cup {HEInt(n) : n \in 0..MaxAddrs}
    /\ background_monitoring = FALSE /\ background_monitoring_stop = FALSE
    /\ watch = NoWatch /\ resolver = PoolResolver("none", TRUE)
NextOrder ==
    \/ CallNewConn(Caller)
    \/ HappyEyeballsResolve(Caller, OrderLists, OrderTimeouts)
    \/ NewConnSwap(Caller)
SpecOrder == InitOrder /\ [][NextOrder]_vars

\* _new_conn with Happy Eyeballs: the attempts start, connect or fail in
\* any order while the caller waits, and go on after it has returned
RaceLists == AddrLists(MaxRaceAddrs)
RaceTimeouts == {NoTimeout, 3}
InitRace ==
    /\ description = NoDescription
    /\ clears = 0
    /\ InitPool /\ port = 80 /\ maxsize = 1 /\ block = FALSE
    /\ happy_eyeballs \in {HEBool(TRUE), HEInt(2)}
    /\ background_monitoring = FALSE /\ background_monitoring_stop = FALSE
    /\ watch = NoWatch /\ resolver = PoolResolver("none", TRUE)
NextRace ==
    \/ CallNewConn(Caller)
    \/ HappyEyeballsResolve(Caller, RaceLists, RaceTimeouts)
    \/ \E i \in RaceTasks : TaskStart(i)
    \/ \E i \in RaceTasks : TaskComplete(i, BOOLEAN)
    \/ RaceEnd(Caller)
    \/ NewConnSwap(Caller)
SpecRace == InitRace /\ [][NextRace]_vars

\* bounds of the keepalive specification: the longest watch window, in
\* units of MINIMAL_BACKGROUND_WATCH_WINDOW, and the cycles a task is
\* followed for
MaxWindow == 2
MaxWatchIter == 2

\* a pool with or without a keepalive task, built with each kind of
\* resolver argument; a caller hands connections in and takes them out,
\* and closes the pool at any point
InitWatch ==
    /\ description = NoDescription
    /\ clears = 0
    /\ InitPool /\ port = 80 /\ maxsize = 1 /\ block = FALSE
    /\ happy_eyeballs = HEBool(FALSE)
    /\ background_monitoring_stop = FALSE
    /\ \/ background_monitoring = FALSE /\ watch = NoWatch
       \/ background_monitoring = TRUE /\ watch \in {WatchOf(d) : d \in 1..MaxWindow}
    /\ resolver \in {PoolResolver(kind, TRUE) : kind \in ResolverKinds}
                    \cup {PoolResolver("instance", FALSE)}
NextWatch ==
    \/ WatchLoop(MaxWatchIter)
    \/ WatchSleep
    \/ WatchAwake
    \/ WatchScan
    \/ ForeignConn(Caller)
    \/ CallPutConn(Caller)
    \/ CallGetConn(Caller)
    \/ Close
SpecWatch == InitWatch /\ [][NextWatch]_vars

\* calls of NullResolver.getaddrinfo
InitNull == InitPool /\ InitDefaults /\ port = 80
NextNull == NullGetaddrinfo
SpecNull == InitNull /\ [][NextNull]_vars

\* two threads calling _new_conn on a pool with room for more than one
\* connection, with and without Happy Eyeballs (the resolver gives one
\* address or two)
DialLists == {<<AF_INET>>, <<AF_INET6, AF_INET>>}
InitDial ==
    /\ description = NoDescription
    /\ clears = 0
    /\ PoolOfSize({MaxSize + 1}) /\ port = 80 /\ block = FALSE
    /\ happy_eyeballs \in {HEBool(FALSE), HEBool(TRUE)}
    /\ background_monitoring = FALSE /\ background_monitoring_stop = FALSE
    /\ watch = NoWatch /\ resolver = PoolResolver("none", TRUE)
NextDial ==
    \/ \E t \in Threads : CallNewConn(t)
    \/ \E t \in Threads : HappyEyeballsResolve(t, DialLists, {NoTimeout})
    \/ \E i \in RaceTasks : TaskStart(i)
    \/ \E i \in RaceTasks : TaskComplete(i, BOOLEAN)
    \/ \E t \in Threads : RaceEnd(t)
    \/ \E t \in Threads : NewConnSwap(t)
SpecDial == InitDial /\ [][NextDial]_vars

\* a Happy Eyeballs race with the done callbacks taken statement by
\* statement: every attempt ends, one way or the other, and every worker
\* runs its callback to the end (max_workers is the number of tasks, and
\* connect has a timeout)
\* (the callbacks do not look at the families: IPv4 lists are enough)
CallbackLists == {fams \in AddrLists(MaxRaceAddrs) : \A i \in DOMAIN fams : fams[i] = AF_INET}
InitCallbacks ==
    /\ description = NoDescription
    /\ clears = 0
    /\ InitPool /\ port = 80 /\ maxsize = 1 /\ block = FALSE
    /\ happy_eyeballs = HEBool(TRUE)
    /\ background_monitoring = FALSE /\ background_monitoring_stop = FALSE
    /\ watch = NoWatch /\ resolver = PoolResolver("none", TRUE)
NextCallbacks ==
    \/ CallNewConn(Caller)
    \/ HappyEyeballsResolve(Caller, CallbackLists, {NoTimeout})
    \/ \E i \in RaceTasks : Worker(i)
    \/ RaceEnd(Caller)
    \/ NewConnSwap(Caller)
SpecCallbacks ==
    /\ InitCallbacks /\ [][NextCallbacks]_vars
    /\ \A i \in 1..MaxRaceAddrs : WF_vars(Worker(i))
    /\ WF_vars(RaceEnd(Caller))

\* bound of the resolver-url specification: the parameters of a query
MaxParams == 2

\* parameter names: plain, with a capital, the two names from_url treats
\* apart, and the reserved one written with a capital
QueryNames ==
    {<<"a">>, <<"A">>, K_hosts, K_implementation,
     <<"I", "m", "p", "l", "e", "m", "e", "n", "t", "a", "t", "i", "o", "n">>}

\* parse_qs values: one value that looks like a bool, an int, a float, a
\* word or a comma-separated list, or the values of a repeated parameter
QueryValues ==
    {<<v>> : v \in {<<"T", "r", "u", "e">>, <<"1", "2">>, <<"1", ".", "5", "0">>,
                    <<".", "5">>, <<" ", "X">>, <<"a", ",", "B">>}}
    \cup {<< <<"a", ",", "b">>, <<"c">> >>}

\* parse_url(url) without its query: no scheme at all, a plain scheme
\* without a path, a scheme with a specifier and a path
ResolverUrls ==
    {[scheme |-> PyNone, path |-> <<>>, host |-> "dns.test", port |-> 53],
     [scheme |-> PyStr(<<"d", "o", "h">>), path |-> <<>>, host |-> "dns.test",
      port |-> 443],
     [scheme |-> PyStr(<<"D", "o", "H", "+", "G">>), path |-> <<"/", "q">>,
      host |-> "dns.test", port |-> 443]}

\* from_url is called once, on a url whose query has up to MaxParams
\* parameters of different names (parse_qs gives a dict), in any order
InitFromUrl ==
    /\ InitPool /\ port = 80 /\ maxsize = 1 /\ block = FALSE
    /\ happy_eyeballs = HEBool(FALSE)
    /\ background_monitoring = FALSE /\ background_monitoring_stop = FALSE
    /\ watch = NoWatch /\ resolver = PoolResolver("none", TRUE)
    /\ clears = 0
    /\ \E u \in ResolverUrls : \E n \in 0..MaxParams :
       \E parameters \in [1..n -> [name : QueryNames, values : QueryValues]] :
          /\ \A i, j \in 1..n : parameters[i].name = parameters[j].name => i = j
          /\ u.scheme = PyNone => n = 0
          /\ description =
                 [calls |-> 0, result |-> PyNone,
                  url |-> [scheme |-> u.scheme, path |-> u.path, host |-> u.host,
                           port |-> u.port, parameters |-> parameters]]
NextFromUrl == FromUrl
SpecFromUrl == InitFromUrl /\ [][NextFromUrl]_vars

\* one thread sending multiplexed requests, its finally clause statement by
\* statement, while another thread asks the pool for connections
Other == "t2"
MemorizeArgs ==
    Args({"GET"}, {{}}, {UrlPath}, {RetryOf(1, TRUE), RetryOff}, {TRUE}, {TRUE}, {TRUE},
         BOOLEAN)
MemorizeErrs == {"NewConnectionError", "MustRedialError"}
MemorizeResps == {Resp(200, FALSE, UrlPath)}
InitMemorize == PoolOfSize(1..(MaxSize + 1)) /\ InitDefaults /\ port = 80
NextMemorize ==
    \/ UrlopenWithin(Caller, MemorizeArgs, MaxRequests + 1)
    \/ UrlopenEnter(Caller)
    \/ UrlopenRequest(Caller, MemorizeErrs, MemorizeResps)
    \/ UrlopenMemorize(Caller)
    \/ UrlopenRelease(Caller)
    \/ UrlopenFinallyOther(Caller)
    \/ OtherGetConn(Other)
    \/ \E t \in Threads : NewConnHold(t)
    \/ \E t \in Threads : NewConnSwap(t)
SpecMemorize == InitMemorize /\ [][NextMemorize]_vars

\* one thread sending one plain request after the other over a network
\* that never fails: answers, answers that ask for a retry, redirects to
\* the same host, and idle connections the server has dropped meanwhile
SequentialArgs ==
    Args({"GET"}, {{}}, {UrlPath}, {RetryOf(1, TRUE), RetryOff}, {TRUE}, {TRUE}, {FALSE},
         {TRUE})
SequentialErrs == {}
SequentialResps ==
    {Resp(200, FALSE, UrlPath), Resp(503, FALSE, UrlPath), Resp(302, TRUE, UrlPath)}
InitSequential == PoolOfSize(1..(MaxSize + 1)) /\ InitDefaults /\ port = 80
NextSequential ==
    \/ UrlopenWithin(Caller, SequentialArgs, MaxRequests + 2)
    \/ UrlopenEnter(Caller)
    \/ UrlopenRequest(Caller, SequentialErrs, SequentialResps)
    \/ UrlopenFinally(Caller)
    \/ NewConnHold(Caller)
    \/ NewConnSwap(Caller)
SpecSequential == InitSequential /\ [][NextSequential]_vars

\* one thread acquiring and releasing connections of a pool that does not
\* block, another handing the pool connections built outside of it, each
\* with a request in flight that ends at some point
InitExtend == InitSlots /\ ~block
NextExtend ==
    \/ CallGetConn(Caller)
    \/ NewConnHold(Caller)
    \/ NewConnSwap(Caller)
    \/ ForeignConn(Other)
    \/ \E t \in Threads : CallPutConn(t)
    \/ \E t \in Threads : PutConn(t)
    \/ \E c \in ConnIds : ForeignResponse(c)
SpecExtend == InitExtend /\ [][NextExtend]_vars

\* a pool with a keepalive task; a caller hands connections in while the
\* pool is there, and at any point of the task's cycle closes the pool, step
\* by step, or lets go of it
InitTeardown ==
    /\ description = NoDescription
    /\ clears = 0
    /\ PoolOfSize({MaxSize + 1}) /\ port = 80 /\ block = TRUE
    /\ happy_eyeballs = HEBool(FALSE)
    /\ background_monitoring_stop = FALSE
    /\ background_monitoring = TRUE /\ watch = WatchOf(MaxWindow)
    /\ resolver = PoolResolver("none", TRUE)
NextTeardown ==
    \/ Task(MaxWatchIter)
    \/ ~Collected /\ ForeignConn(Caller)
    \/ ~Collected /\ CallPutConn(Caller)
    \/ CloseNull(Caller)
    \/ CloseClear(Caller)
    \/ CloseStop(Caller)
    \/ Collect
SpecTeardown == InitTeardown /\ [][NextTeardown]_vars /\ WF_vars(Task(MaxWatchIter))

\* a pool, with or without a keepalive task, that holds connections; its
\* threads call close() whenever they like, one after the other or at once
InitClose ==
    /\ description = NoDescription
    /\ clears = 0
    /\ PoolOfSize({MaxSize + 1}) /\ port = 80 /\ block = TRUE
    /\ happy_eyeballs = HEBool(FALSE)
    /\ background_monitoring_stop = FALSE
    /\ \/ background_monitoring = FALSE /\ watch = NoWatch
       \/ background_monitoring = TRUE /\ watch = WatchOf(MaxWindow)
    /\ resolver \in {PoolResolver("none", TRUE), PoolResolver("instance", TRUE)}
NextClose ==
    \/ ForeignConn(Caller)
    \/ CallPutConn(Caller)
    \/ \E t \in Threads : CloseTest(t)
    \/ \E t \in Threads : CloseLoad(t)
    \/ \E t \in Threads : CloseStore(t)
    \/ \E t \in Threads : CloseClear(t)
    \/ \E t \in Threads : CloseClearNone(t)
    \/ \E t \in Threads : CloseStop(t)
SpecClose == InitClose /\ [][NextClose]_vars

\* a pool with a keepalive task started with each keepalive setting; a
\* caller hands connections in, idle or busy, connected or not; the clock
\* shows every delay up to MaxDelay half seconds
MaxDelay == 4
KeepaliveDelays == 0..MaxDelay
InitKeepalive ==
    /\ description = NoDescription
    /\ clears = 0
    /\ PoolOfSize({MaxSize}) /\ port = 80 /\ block = TRUE
    /\ happy_eyeballs = HEBool(FALSE)
    /\ background_monitoring_stop = FALSE
    /\ background_monitoring = TRUE
    /\ \E kd \in {NoDelay, 1, MaxDelay - 1} : \E kw \in {NoDelay, OneSecond, MaxDelay - 1} :
          watch = [WatchOf(1) EXCEPT !.keepalive_delay = kd,
                                     !.keepalive_idle_window = kw]
    /\ resolver = PoolResolver("none", TRUE)
NextKeepalive ==
    \/ WatchLoop(MaxWatchIter)
    \/ WatchSleep
    \/ WatchAwake
    \/ TaskIter
    \/ TaskNext
    \/ TaskMeasure(KeepaliveDelays)
    \/ TaskPeek
    \/ TaskDue(KeepaliveDelays)
    \/ TaskSendPing
    \/ TaskPeekFrame
    \/ ForeignConn(Caller)
    \/ CallNewConn(Caller)
    \/ NewConnSwap(Caller)
    \/ CallPutConn(Caller)
SpecKeepalive == InitKeepalive /\ [][NextKeepalive]_vars

\* a pool as the constructor leaves it for every watch delay, keepalive
\* delay and idle window of 0..MaxDelay or None, then its monitor task, one
\* caller using the pool and closing it
MonitorDelays == {NoDelay} \cup 0..MaxDelay
InitMonitor ==
    /\ description = NoDescription
    /\ clears = 0
    /\ PoolOfSize({MaxSize}) /\ port = 80 /\ block = TRUE
    /\ happy_eyeballs = HEBool(FALSE)
    /\ background_monitoring_stop = FALSE
    /\ \E bwd \in MonitorDelays : \E kd \in {NoDelay, MaxDelay} :
       \E kw \in MonitorDelays :
          /\ watch = MonitorOf(bwd, kd, kw)
          /\ background_monitoring = MonitorStarted(bwd)
    /\ resolver = PoolResolver("none", TRUE)
NextMonitor ==
    \/ WatchLoop(1)
    \/ WatchSleep
    \/ WatchAwake
    \/ TaskIter
    \/ TaskNext
    \/ TaskMeasure({0, OneSecond, MaxDelay})
    \/ TaskPeek
    \/ TaskDue({0, OneSecond, MaxDelay})
    \/ TaskSendPing
    \/ TaskPeekFrame
    \/ ForeignConn(Caller)
    \/ CallPutConn(Caller)
    \/ CloseTest(Caller)
    \/ CloseLoad(Caller)
    \/ CloseStore(Caller)
    \/ CloseClear(Caller)
    \/ CloseStop(Caller)
SpecMonitor == InitMonitor /\ [][NextMonitor]_vars

\* requests that are asked to downgrade, time out or succeed, with a retry
\* budget of MaxRetries, of none, or retries disabled
DowngradeArgs ==
    Args({"GET"}, {{}}, {UrlPath}, {RetryOf(MaxRetries, TRUE), RetryOf(0, TRUE), RetryOff},
         {TRUE}, {TRUE}, BOOLEAN, {TRUE})
DowngradeErrs == {"MustDowngradeError", "ReadTimeoutError"}
DowngradeResps == {Resp(200, FALSE, UrlPath)}
InitDowngrade == PoolOfSize({MaxSize}) /\ InitDefaults /\ port = 80
NextDowngrade ==
    \/ UrlopenWithin(Caller, DowngradeArgs, MaxRequests + MaxRetries)
    \/ UrlopenEnter(Caller)
    \/ UrlopenRequest(Caller, DowngradeErrs, DowngradeResps)
    \/ UrlopenFinally(Caller)
    \/ NewConnHold(Caller)
    \/ NewConnSwap(Caller)
SpecDowngrade == InitDowngrade /\ [][NextDowngrade]_vars

\* requests followed one connection call at a time: the tunnel, the
\* connection, the request, on new connections and on pooled ones
RequestArgs ==
    Args({"GET"}, {{}}, {UrlPath}, {RetryOf(1, TRUE), RetryOff}, {TRUE}, {TRUE}, BOOLEAN,
         {TRUE})
RequestErrs == {"NewConnectionError", "ReadTimeoutError", "OSError"}
RequestResps == {Resp(200, FALSE, UrlPath)}
InitRequest == PoolOfSize({MaxSize}) /\ InitDefaults /\ port = 80
NextRequest ==
    \/ num_connections <= MaxRequests /\ UrlopenWithin(Caller, RequestArgs, MaxRequests + 2)
    \/ UrlopenEnter(Caller)
    \/ RequestTunnel(Caller, RequestErrs)
    \/ RequestValidate(Caller, RequestErrs)
    \/ RequestSend(Caller, RequestErrs, RequestResps)
    \/ UrlopenFinally(Caller)
    \/ NewConnHold(Caller)
    \/ NewConnSwap(Caller)
SpecRequest == InitRequest /\ [][NextRequest]_vars

\* urlopen(multiplexed=True) only, on connections that negotiate HTTP/2 or
\* HTTP/1.1, with responses that end the call, are retried or redirect
MuxArgs ==
    Args({"GET"}, {{}}, {UrlPath}, {RetryOf(1, TRUE), RetryOff}, {TRUE}, {TRUE}, {TRUE},
         {TRUE})
MuxErrs == {"ReadTimeoutError"}
MuxResps ==
    {Resp(200, FALSE, UrlPath), Resp(503, FALSE, UrlPath), Resp(302, TRUE, UrlPath)}
InitMux == PoolOfSize({MaxSize}) /\ InitDefaults /\ port = 80
NextMux ==
    \/ UrlopenWithin(Caller, MuxArgs, MaxRequests + 2)
    \/ UrlopenEnter(Caller)
    \/ UrlopenRequest(Caller, MuxErrs, MuxResps)
    \/ UrlopenFinally(Caller)
    \/ NewConnHold(Caller)
    \/ NewConnSwap(Caller)
SpecMux == InitMux /\ [][NextMux]_vars

\* every error of StepErrors raised in every step, for two urls and two
\* values of each timeout
InitTimeout == PoolOfSize({MaxSize}) /\ InitDefaults /\ port = 80
NextTimeout ==
    \/ MakeRequestRaises(Caller)
    \/ MakeRequestExcept(Caller)
    \/ MakeRequestLeave(Caller)
SpecTimeout == InitTimeout /\ [][NextTimeout]_vars

\* urlopen with release_conn True or False, plain or multiplexed, whose
\* attempts fail, succeed, are retried or redirect, its finally clause
\* followed test by test; response.release_conn() gives back what was left
\* with a response
ReleaseArgs ==
    Args({"GET"}, {{}}, {UrlPath}, {RetryOf(1, TRUE), RetryOff}, {TRUE}, {TRUE}, BOOLEAN,
         BOOLEAN)
ReleaseErrs == {"ReadTimeoutError", "NewConnectionError"}
ReleaseResps ==
    {Resp(200, FALSE, UrlPath), Resp(503, FALSE, UrlPath), Resp(302, TRUE, UrlPath)}
InitRelease == PoolOfSize({MaxSize}) /\ InitDefaults /\ port = 80
NextRelease ==
    \/ Held(Caller) = {} /\ UrlopenWithin(Caller, ReleaseArgs, MaxRequests + 2)
    \/ UrlopenEnter(Caller)
    \/ UrlopenRequest(Caller, ReleaseErrs, ReleaseResps)
    \/ FinallyDiscard(Caller)
    \/ FinallyMemorize(Caller)
    \/ FinallyRelease(Caller)
    \/ NewConnHold(Caller)
    \/ NewConnSwap(Caller)
    \/ CallPutConn(Caller)
SpecRelease == InitRelease /\ [][NextRelease]_vars

\* a caller inside urlopen, its finally clause followed test by test, while
\* another thread calls close() at any moment
ShutdownArgs ==
    Args({"GET"}, {{}}, {UrlPath}, {RetryOf(1, TRUE), RetryOff}, {FALSE}, {TRUE}, BOOLEAN,
         BOOLEAN)
ShutdownErrs == {"ReadTimeoutError"}
ShutdownResps == {Resp(200, FALSE, UrlPath)}
InitShutdown == PoolOfSize({MaxSize}) /\ InitDefaults /\ port = 80
NextShutdown ==
    \/ Held(Caller) = {} /\ UrlopenWithin(Caller, ShutdownArgs, MaxRequests)
    \/ UrlopenEnter(Caller)
    \/ UrlopenRequest(Caller, ShutdownErrs, ShutdownResps)
    \/ FinallyDiscard(Caller)
    \/ FinallyMemorize(Caller)
    \/ FinallyRelease(Caller)
    \/ NewConnHold(Caller)
    \/ NewConnSwap(Caller)
    \/ \E t \in Threads \ {Caller} : CloseNull(t)
    \/ \E t \in Threads \ {Caller} : CloseClear(t)
    \/ \E t \in Threads \ {Caller} : CloseStop(t)
SpecShutdown == InitShutdown /\ [][NextShutdown]_vars

(* ------------------------------ properties ---------------------------- *)
\* the call the caller is in, or the one it has just left
CurrentOp == IF Ready(Caller) THEN ret.op ELSE fr[Caller].op
\* the caller's call has ended
Ended(op) == Ready(Caller) /\ ret.op = op
\* connections created and neither closed nor discarded: those installed in
\* the slot manager and the one being built under locate_or_hold
LiveConnections == Occupied

\* C1: as stated, the number of live connections never exceeds the maxsize N
\* the pool was built with, unless _put_conn extended the ceiling, which
\* happens at most once (so never more than N + 1).
C1_LiveWithinOneExtension ==
    LiveConnections <= maxsize0 + (IF extensions = 0 THEN 0 ELSE 1)

\* the operations that access the slots of the pool
ClosedFailOps == {"urlopen", "get_conn", "new_conn", "get_response"}

C3_PutOnClosedRaises ==
    (Ended("put_conn") /\ ret.closed0) => ret.outcome = "ClosedPoolError"

\* C3 (amended): once close() has returned, _put_conn(conn) raises nothing:
\* it closes the connection, discards it without touching the slots, counts
\* num_connections down by one and returns.
C3_PutOnClosedDiscards ==
    [][(~pool_open /\ holder' # holder) =>
          /\ ret' = [op |-> "put_conn", outcome |-> "returned", closed0 |-> TRUE,
               trail |-> <<>>]
          /\ num_connections' = num_connections - 1
          /\ slots' = slots
          /\ \E c \in Held(Caller) :
                /\ Held(Caller)' = Held(Caller) \ {c}
                /\ conns'[c] = FreeConn]_vars

\* a connection was given back after close() and the call returned
C3_Witness ==
    ret = [op |-> "put_conn", outcome |-> "returned", closed0 |-> TRUE,
               trail |-> <<>>]

C5_ReadsWithinBudget ==
    (CurrentOp = "get_response" /\ call.gr_with /\ call.budget0.on) =>
        call.reads <= call.budget0.total + 1

\* C6: no RecoverableError (MustDowngradeError, MustRedialError) leaves
\* urlopen or get_response; stated here for the calls whose retries are not
\* disabled: those made with a Retry, and get_response(promise=None).
C6_NoRecoverableErrorEscapes ==
    (/\ Ready(Caller) /\ ret.op \in {"urlopen", "get_response"}
     /\ call.budget0.on \/ (ret.op = "get_response" /\ ~call.gr_with))
        => ret.outcome \notin RecoverableErrors

\* C7: urlopen on a pool with block=True whose slot manager has no connection
\* to give (none available, none to create) ends with EmptyPoolError in the
\* attempt that meets it (get_response passes the error on when the attempt
\* was made on its behalf): no Retry.increment, no sleep, no request, no slot
\* killed or released, and urlopen is not entered again.
C7_EmptyPoolFailsFast ==
    [][(/\ CallUrlopen(Caller, DispatchArgs) \/ UrlopenEnter(Caller)
        /\ block /\ pool_open /\ Available = {} /\ Occupied >= maxsize
        /\ ~HostChanged(call')) =>
          /\ Ready(Caller)'
          /\ ret'.op = (IF Ready(Caller) THEN "urlopen" ELSE fr[Caller].op)
          /\ ret'.outcome = "EmptyPoolError"
          /\ call'.incs = (IF Ready(Caller) THEN 0 ELSE call.incs)
          /\ call'.sleeps = (IF Ready(Caller) THEN 0 ELSE call.sleeps)
          /\ call'.sent = (IF Ready(Caller) THEN 0 ELSE call.sent)
          /\ call'.retries = (IF Ready(Caller) THEN call'.budget0 ELSE call.retries)
          /\ poolvars' = poolvars]_vars

\* a first attempt with a positive budget found the blocking pool empty
C7_Witness ==
    /\ Ended("urlopen") /\ ret.outcome = "EmptyPoolError" /\ block /\ pool_open
    /\ call.sent = 0 /\ call.budget0.on /\ call.budget0.total > 0
    /\ call.retries = call.budget0

\* the port a url or a pool stands for: its own, else the default of the scheme
EffectivePort(p, scheme) == IF p = 0 THEN port_by_scheme(scheme) ELSE p
\* the url names a scheme, host or port other than the pool's
DiffersFromPool(u) ==
    /\ ~u.rel
    /\ LET scheme == IF u.scheme = "" THEN "http" ELSE u.scheme IN
       \/ scheme # PoolScheme
       \/ u.host # PoolHost
       \/ EffectivePort(u.port, scheme) # EffectivePort(port, PoolScheme)

\* C8: an attempt of urlopen with assert_same_host=True ends with
\* HostChangedError exactly when the url's (scheme, host, port) differs from
\* the pool's, default ports made explicit; it does so before a connection
\* is acquired (slots, num_connections, num_requests and the rest of the
\* pool unchanged), consumes no retry and is not followed by another
\* attempt; a url starting with "/" never differs.
C8_HostChangedFailsFast ==
    [][(CallUrlopen(Caller, HostArgs) \/ UrlopenEnter(Caller)) =>
          /\ (call'.ash /\ DiffersFromPool(call'.url))
                <=> (Ready(Caller)' /\ ret'.outcome = "HostChangedError")
          /\ call'.url.rel => ret'.outcome # "HostChangedError"
          /\ ret'.outcome = "HostChangedError" =>
                /\ poolvars' = poolvars
                /\ call'.incs = (IF Ready(Caller) THEN 0 ELSE call.incs)
                /\ call'.sleeps = (IF Ready(Caller) THEN 0 ELSE call.sleeps)
                /\ call'.sent = (IF Ready(Caller) THEN 0 ELSE call.sent)]_vars

\* a url with the pool's host and an explicit port other than the pool's was
\* refused before anything was sent
C8_Witness ==
    /\ Ended("urlopen") /\ ret.outcome = "HostChangedError"
    /\ call.url.host = PoolHost /\ call.url.scheme = PoolScheme
    /\ call.sent = 0 /\ num_connections = 0

\* C9: urlopen with a Retry of total 0 whose connection is refused
\* (NewConnectionError) raises MaxRetryError: Retry.increment raises before
\* retries.sleep() is reached, so one request attempt is made, none follows
\* and nothing sleeps.
C9_ZeroBudgetRefused ==
    (/\ CurrentOp = "urlopen"
     /\ call.budget0.on /\ call.budget0.total = 0
     /\ call.exc = "NewConnectionError") =>
        /\ call.sent = 1 /\ call.sleeps = 0 /\ call.incs = 0
        /\ call.raising = "MaxRetryError"
        /\ ~Ready(Caller) => fr[Caller].pc = "uo_finally"
        /\ Ready(Caller) => ret.outcome = "MaxRetryError"

\* the refused connection ended the call with MaxRetryError
C9_Witness ==
    /\ Ended("urlopen") /\ ret.outcome = "MaxRetryError"
    /\ call.budget0.on /\ call.budget0.total = 0
    /\ call.exc = "NewConnectionError" /\ call.sent = 1 /\ call.sleeps = 0

\* the request a redirect starts from: urlopen's own arguments, or the
\* parameters of the promise get_response has just read
RedirectedFrom ==
    IF fr[Caller].pc = "uo_finally"
    THEN [method |-> call.method, body |-> call.body, headers |-> call.headers]
    ELSE LET q == CHOOSE q \in PromiseIds : prom[q].st = "pending" /\ prom'[q].st = "done"
         IN  [method |-> prom[q].method, body |-> prom[q].body,
              headers |-> prom[q].headers]

\* C10: the request urlopen resubmits for a 303 with a Location is a GET
\* without body and without any of NOT_FORWARDABLE_HEADERS (its other
\* headers kept), in urlopen and in get_response alike; for another redirect
\* status method, body and headers are forwarded unchanged.
C10_RedirectRequest ==
    [][(/\ fr[Caller].pc \in {"uo_finally", "gr_borrow", "idle"}
        /\ fr'[Caller].pc = "uo_enter"
        /\ call'.via \in {"redirect", "redirect303"}) =>
          /\ HasRedirectLocation(call'.resp) /\ call'.url = call'.resp.location
          /\ call'.via = "redirect303" <=> call'.resp.status = 303
          /\ IF call'.via = "redirect303"
             THEN /\ call'.method = "GET"
                  /\ ~call'.body
                  /\ call'.headers \cap NOT_FORWARDABLE_HEADERS = {}
                  /\ call'.headers = RedirectedFrom.headers \ NOT_FORWARDABLE_HEADERS
             ELSE /\ call'.method = RedirectedFrom.method
                  /\ call'.body = RedirectedFrom.body
                  /\ call'.headers = RedirectedFrom.headers]_vars

\* get_response resubmits as a bare GET, after a 303, the promise of a POST
C10_Witness ==
    /\ fr[Caller].pc = "uo_request" /\ call.via = "redirect303" /\ call.nested
    /\ call.method0 = "POST" /\ call.gr_with
    /\ call.method = "GET" /\ ~call.body /\ call.headers = {"Accept"}
    /\ num_requests >= 1

\* the promise whose response get_response reads in this step
ReadPromise == CHOOSE q \in PromiseIds : prom[q].st = "pending" /\ prom'[q].st = "done"
\* urlopen is about to handle a redirect response it has read
UrlopenAtRedirect ==
    /\ fr[Caller].pc = "uo_finally" /\ call.clean_exit /\ call.raising = "none"
    /\ ~call.mux /\ call.redirect /\ HasRedirectLocation(call.resp)
\* get_response reads, in this step, a redirect response to a promise sent
\* with redirect=True
GetResponseAtRedirect ==
    /\ fr[Caller].pc \in {"idle", "gr_borrow"}
    /\ \E q \in PromiseIds : prom[q].st = "pending" /\ prom'[q].st = "done"
    /\ prom[ReadPromise].redirect /\ HasRedirectLocation(call'.resp)

\* C11: when Retry.increment raises MaxRetryError for a redirect response,
\* urlopen and get_response raise MaxRetryError if raise_on_redirect is set
\* and return that response as it is otherwise; either way the call ends
\* there (get_response goes on when urlopen ran on its behalf) and no
\* further request is sent.
C11_RedirectCeiling ==
    [][/\ (UrlopenAtRedirect
             /\ RetryIncrementResponse(call.retries).kind = "exhausted") =>
              /\ num_requests' = num_requests /\ call'.sent = call.sent
              /\ call'.resp = call.resp /\ call'.incs = call.incs
              /\ fr'[Caller].pc # "uo_enter"
              /\ call.retries.ror =>
                    Ready(Caller)' /\ ret'.outcome = "MaxRetryError"
              /\ (~call.retries.ror /\ ~call.nested) =>
                    Ready(Caller)' /\ ret' = [op |-> "urlopen", outcome |-> "response",
                                              closed0 |-> FALSE, trail |-> <<>>]
       /\ (GetResponseAtRedirect
             /\ RetryIncrementResponse(prom[ReadPromise].retries).kind = "exhausted") =>
              /\ num_requests' = num_requests
              /\ Ready(Caller)' /\ ret'.op = "get_response"
              /\ ret'.outcome = IF prom[ReadPromise].retries.ror
                                 THEN "MaxRetryError" ELSE "response"]_vars

\* with raise_on_redirect unset and a budget of one or more, urlopen followed
\* redirects until the budget was spent and returned the last of them
C11_Witness ==
    /\ Ended("urlopen") /\ ret.outcome = "response"
    /\ HasRedirectLocation(call.resp) /\ call.redirect
    /\ call.budget0.on /\ ~call.budget0.ror /\ call.budget0.total >= 1
    /\ call.sent = call.budget0.total + 1 /\ call.retries.total = 0

\* the promises whose response get_response has retrieved
Retrieved == {q \in PromiseIds : prom[q].st = "done"}

\* C17: once get_response has retrieved the response of a promise, the
\* promise is absent from the promise-to-connection table, and
\* get_response(promise) called for it again on the open pool returns None in
\* the step it starts, the pool and its connections left as they were.
C17_RetrievedIsForgotten ==
    [][/\ \A q \in Retrieved' : pmap'[q] = NoConn
       /\ (/\ Ready(Caller) /\ pool_open
           /\ fr' # fr \/ ret' # ret
           /\ ret'.op = "get_response" \/ fr'[Caller].op = "get_response"
           /\ call'.gr_with /\ call'.gr_promise \in Retrieved) =>
              /\ Borrowable(call'.gr_promise) = {}
              /\ Ready(Caller)'
              /\ ret' = [op |-> "get_response", outcome |-> "None", closed0 |-> FALSE,
                         trail |-> <<>>]
              /\ poolvars' = poolvars]_vars

\* get_response was called a second time for a promise whose connection is
\* still in the pool, and returned None
C17_Witness ==
    /\ Ended("get_response") /\ ret.outcome = "None" /\ pool_open
    /\ call.gr_with /\ call.gr_promise \in Retrieved
    /\ \E c \in slots : ~is_closed(c)

\* every attempt of the race has ended
AllAttemptsOver == \A i \in RaceTasks : race.tasks[i] \in {"ok", "failed"}

\* C12: as stated, once _new_conn has returned the winner of a race and
\* every attempt has ended, the winner's connect() returned without error
\* and no other challenger holds a transport, whatever the order in which
\* the attempts started and ended.
C12_LosersEndClosed ==
    (race.phase = "returned" /\ AllAttemptsOver) =>
        /\ race.tasks[race.winning_task] = "ok"
        /\ \A i \in RaceTasks \ {race.winning_task} : ~race.sock[i]

\* the addresses of one family, in resolved order
Positions(fams, family) == {i \in 1..Len(fams) : fams[i] = family}
Smaller(a, b) == IF a < b THEN a ELSE b

\* C13: for a resolved list with entries of both families, the attempt
\* order holds every resolved address exactly once, keeps the resolved
\* order within each family, and alternates IPv6, IPv4, IPv6, IPv4, ...
\* for as long as both families last, the rest of the longer family
\* following; [v6a, v6b, v4a] gives [v6a, v4a, v6b].
C13_DualStackOrder ==
    LET fams == race.ip_addresses
        o == race.order
        pairs == Smaller(Cardinality(Positions(fams, AF_INET6)),
                         Cardinality(Positions(fams, AF_INET)))
    IN  (/\ race.phase = "racing"
         /\ Positions(fams, AF_INET6) # {} /\ Positions(fams, AF_INET) # {}) =>
            /\ Len(o) = Len(fams)
            /\ {o[i] : i \in 1..Len(o)} = 1..Len(fams)
            /\ \A i, j \in 1..Len(o) :
                  (i < j /\ fams[o[i]] = fams[o[j]]) => o[i] < o[j]
            /\ \A i \in 1..(2 * pairs) :
                  fams[o[i]] = IF i % 2 = 1 THEN AF_INET6 ELSE AF_INET
            /\ fams = <<AF_INET6, AF_INET6, AF_INET>> => o = <<1, 3, 2>>

\* the list [v6a, v6b, v4a] was resolved and ordered [v6a, v4a, v6b]
C13_Witness ==
    /\ race.phase = "racing" /\ Truthy(happy_eyeballs)
    /\ race.ip_addresses = <<AF_INET6, AF_INET6, AF_INET>>
    /\ race.order = <<1, 3, 2>>

\* C14 (as stated): attempts are raced only for a list of two or more
\* addresses with both families in it; a list of one family is not raced.
C14_RaceOnlyDualStack ==
    race.phase = "racing" =>
        /\ Len(race.ip_addresses) >= 2
        /\ Positions(race.ip_addresses, AF_INET6) # {}
        /\ Positions(race.ip_addresses, AF_INET) # {}

\* C14 (amended): with happy_eyeballs set, the attempts are raced exactly
\* when the resolver returns two or more addresses, of both families or of
\* one; a list of fewer than two addresses is not raced: no attempt is
\* launched and _new_conn goes on to build the one connection it installs.
\* Without happy_eyeballs nothing is resolved or raced.
C14_RaceWhenSeveral ==
    /\ ~Truthy(happy_eyeballs) => race = NoRace
    /\ race.phase = "racing" <=>
          (fr[Caller].pc = "nc_wait" /\ Len(race.ip_addresses) >= 2)
    /\ race.phase = "racing" => Len(race.tasks) >= 1
    /\ race.phase = "ineligible" =>
          /\ Len(race.ip_addresses) < 2
          /\ race.tasks = <<>> /\ race.targets = <<>>
          /\ CurrentOp = "new_conn"
          /\ ~Ready(Caller) => fr[Caller].pc = "nc_swap"
    /\ fr[Caller].pc = "nc_wait" => race.phase = "racing"

\* two IPv4 addresses were resolved and an attempt was launched for each
C14_Witness ==
    /\ race.phase = "racing" /\ race.ip_addresses = <<AF_INET, AF_INET>>
    /\ Len(race.tasks) = 2 /\ race.targets = <<1, 2>>

\* the cap on the attempts of one race
Cap == IF happy_eyeballs.is_bool THEN 4 ELSE happy_eyeballs.n

\* C15: a race launches min(cap, number of resolved addresses) attempts,
\* cap being 4 when happy_eyeballs is True and the integer given otherwise:
\* one attempt for each of the first cap addresses of the attempt order.
C15_AttemptsWithinCap ==
    race.phase = "racing" =>
        /\ Len(race.tasks) = Smaller(Cap, Len(race.ip_addresses))
        /\ Len(race.targets) = Len(race.tasks)
        /\ \A i \in 1..Len(race.targets) : race.targets[i] = race.order[i]
        /\ \A i, j \in 1..Len(race.targets) :
              race.targets[i] = race.targets[j] => i = j

\* happy_eyeballs=True and more than four addresses: four attempts
C15_Witness ==
    /\ race.phase = "racing" /\ happy_eyeballs = HEBool(TRUE)
    /\ Len(race.ip_addresses) > 4 /\ Len(race.tasks) = 4

\* C16: when every attempt of a race has failed, _new_conn raises
\* NewConnectionError, chained to the exception of the first attempt in
\* attempt order and naming the connect deadline in its message, and leaves
\* locate_or_hold without installing a connection.
C16_AllAttemptsFail ==
    [][(/\ fr[Caller].pc = "nc_wait" /\ fr'[Caller] # fr[Caller]
        /\ \A i \in RaceTasks : race.tasks[i] = "failed") =>
          /\ Ready(Caller)'
          /\ ret'.op = "new_conn" /\ ret'.outcome = "NewConnectionError"
          /\ race'.error.cause = race.order[1]
          /\ race'.error.deadline = race.override_timeout
          /\ race'.error.deadline > 0
          /\ slots' = slots /\ hold_lock' = NoThread
          /\ \A i \in RaceTasks : ~race'.sock[i]]_vars

\* a race of two or more attempts that all failed ended in the error, the
\* pool still empty
C16_Witness ==
    /\ Ended("new_conn") /\ ret.outcome = "NewConnectionError"
    /\ race.phase = "raised" /\ Len(race.tasks) >= 2
    /\ race.error.cause = race.order[1] /\ race.error.cause # race.order[2]
    /\ slots = {} /\ hold_lock = NoThread

\* C18: once close() has set the stop flag while the keepalive task is in a
\* sleep increment, the task's next step is the end of that increment, at
\* which it returns, however much of the watch window is left; no step the
\* task takes while the flag is set peeks or pings a connection, and a task
\* that has returned does nothing more.
C18_StopWithinOneIncrement ==
    [][/\ (pool_open /\ ~pool_open' /\ background_monitoring) =>
              background_monitoring_stop' /\ watch' = watch
       /\ (background_monitoring_stop /\ watch.pc = "sleep" /\ watch' # watch) =>
              /\ watch'.pc = "returned"
              /\ watch'.slept_period = watch.slept_period + 1
       /\ background_monitoring_stop =>
              watch'.num_pings = watch.num_pings /\ watch'.peeked = watch.peeked
       /\ watch.pc = "returned" => watch' = watch]_vars

\* the pool was closed in the first increment of a longer window of a
\* task that had pinged a connection before, and the task returned at the
\* end of that increment
C18_Witness ==
    /\ background_monitoring_stop /\ ~pool_open /\ watch.pc = "returned"
    /\ watch.slept_period = 1 /\ watch.slept_period < watch.waiting_delay
    /\ watch.num_background_watch_iter >= 2 /\ watch.num_pings >= 1

\* C19: close() closes the resolver exactly when the pool built it itself
\* (from None, a url, a description or a list of descriptions); a resolver
\* instance the caller injected is left as it was, open if it was open.
C19_ClosesOwnResolverOnly ==
    [][/\ resolver'.own <=> resolver'.kind # "instance"
       /\ resolver'.kind = resolver.kind
       /\ (pool_open /\ ~pool_open') =>
              resolver'.available = (resolver.kind = "instance" /\ resolver.available)
       /\ ~(pool_open /\ ~pool_open') => resolver' = resolver]_vars

\* the pool is closed and the resolver that was injected is still open
C19_Witness ==
    /\ ~pool_open /\ resolver.kind = "instance" /\ ~resolver.own /\ resolver.available

\* the host of the call is an IPv4 / IPv6 literal, as a str or as bytes
GivenIPv4 == lookup.host.kind # "none" /\ lookup.host.text \in IPv4Literals
GivenIPv6 == lookup.host.kind # "none" /\ lookup.host.text \in IPv6Literals
\* the port of the call as a number (None stands for 0)
GivenPort == IF lookup.port.kind = "none" THEN 0 ELSE lookup.port.val

\* C20: NullResolver.getaddrinfo with a port >= 0 returns one AF_INET entry
\* with the host and the port it was given for an IPv4 literal, unless
\* AF_INET6 was asked for; one AF_INET6 entry for an IPv6 literal, unless
\* AF_INET was asked for; and raises socket.gaierror for everything else: a
\* literal of the other family, a host name, a None host (hosts are None,
\* str, or bytes of ASCII text).
C20_LiteralsOnly ==
    (lookup.calls = 1 /\ GivenPort >= 0) =>
        LET r == lookup.result IN
        IF GivenIPv4 /\ lookup.family # AF_INET6
        THEN /\ r.raised = "none" /\ Len(r.entries) = 1
             /\ r.entries[1].family = AF_INET /\ r.entries[1].type = lookup.type
             /\ r.entries[1].sockaddr = <<lookup.host.text, GivenPort>>
        ELSE IF GivenIPv6 /\ lookup.family # AF_INET
        THEN /\ r.raised = "none" /\ Len(r.entries) = 1
             /\ r.entries[1].family = AF_INET6 /\ r.entries[1].type = lookup.type
             /\ r.entries[1].sockaddr = <<lookup.host.text, GivenPort, 0, 0>>
        ELSE r.raised = "gaierror" /\ r.entries = <<>>

\* the IPv6 literal given as bytes, with the port given as a str and no
\* family asked for, came back as one AF_INET6 entry
C20_Witness ==
    /\ lookup.calls = 1 /\ lookup.host = BytesHost("::1")
    /\ lookup.port = StrPort(443) /\ lookup.family = AF_UNSPEC
    /\ lookup.result.raised = "none"
    /\ lookup.result.entries[1].family = AF_INET6
    /\ lookup.result.entries[1].sockaddr = <<"::1", 443, 0, 0>>

(* ---------------- properties of ResolverDescription.from_url ----------- *)
\* the parameters of the call and what it gave
GivenParameters == description.url.parameters
Described == description.result

\* the parts joined by commas
RECURSIVE JoinParts(_)
JoinParts(items) ==
    IF Len(items) = 1 THEN items[1].str
    ELSE items[1].str \o <<",">> \o JoinParts(Tail(items))

\* a value as the claim reads it, in lower case and without outer blanks,
\* became the option v: the list of its parts, a bool, an int, a float for
\* digits "." digits, or the same str
CoercedFrom(text, v) ==
    LET value == strip(lower(text), " ") IN
    IF Contains(value, ",")
    THEN IsList(v) /\ Len(v.list) = count(value, ",") + 1
         /\ (\A i \in 1..Len(v.list) : IsStr(v.list[i]) /\ ~Contains(v.list[i].str, ","))
         /\ JoinParts(v.list) = value
    ELSE IF value = <<"t", "r", "u", "e">> THEN v = PyBool(TRUE)
    ELSE IF value = <<"f", "a", "l", "s", "e">> THEN v = PyBool(FALSE)
    ELSE IF isdigit(value) THEN v = PyInt(int(value))
    ELSE IF count(value, ".") = 1 /\ isdigit(remove(value, "."))
    THEN value[1] # "." => DOMAIN v = {"float"}
    ELSE v = PyStr(value)

\* C21: from_url turns each query parameter into a constructor option keyed
\* by the lower-cased parameter name (a comma-separated value becomes the
\* list of its parts, 'true'/'false' booleans, digits an int, digits "."
\* digits a float, anything else stays a str); the 'implementation' key
\* selects the implementation and is never stored as an option, and raises
\* ValueError when it has more than one value.  Read for queries whose
\* names differ after lower-casing and that have no 'hosts' parameter; a
\* reserved key written with a capital may count as the reserved key or as
\* an ordinary parameter.
C21_OptionsFromQuery ==
    (/\ description.calls = 1 /\ description.url.scheme # PyNone
     /\ \A i, j \in DOMAIN GivenParameters :
           lower(GivenParameters[i].name) = lower(GivenParameters[j].name) => i = j
     /\ \A i \in DOMAIN GivenParameters : lower(GivenParameters[i].name) # K_hosts)
    =>
    IF \E i \in DOMAIN GivenParameters :
          /\ GivenParameters[i].name = K_implementation
          /\ Len(GivenParameters[i].values) > 1
    THEN Described.raised = "ValueError"
    ELSE /\ Described.raised = "none"
         /\ \A i \in DOMAIN GivenParameters :
               LET name == GivenParameters[i].name
                   key == lower(name)
                   values == GivenParameters[i].values
                   option == /\ key \in DOMAIN Described.kwargs
                             /\ Len(values) = 1 =>
                                    CoercedFrom(values[1], Described.kwargs[key])
                             /\ Len(values) > 1 => IsList(Described.kwargs[key])
                   selected == /\ key \notin DOMAIN Described.kwargs
                               /\ Len(values) = 1
                               /\ Described.implementation
                                      = PyStr(strip(lower(values[1]), " "))
               IN  IF name = K_implementation THEN selected
                   ELSE IF key = K_implementation THEN selected \/ option
                   ELSE option

(* ------------- properties of the done callbacks ----------------------- *)
\* C22: in a Happy Eyeballs race, whatever the interleaving of the done
\* callbacks on the worker threads, once every attempt completes and its
\* callback has run the completion event gets set (by the first success, or
\* by the last completion when all fail), so that event.wait() returns.
C22_WaitReturns == [](race.phase = "racing" => <>race.event)

(* ------------- properties of concurrent _new_conn --------------------- *)
\* thread t is inside "with self.pool.locate_or_hold() as swapper:", before
\* the block is left
InCreation(t) == fr[t].pc \in {"nc_resolve", "nc_wait", "nc_swap"}

\* C23: two threads that call _new_conn on one pool are never inside the
\* connection-creation section (from entering locate_or_hold to swapper) at
\* the same time, so they never dial at the same time; and a _new_conn that
\* succeeds installs its connection into a slot exactly once: its connection
\* owns no slot inside the section, and leaving the section adds that
\* connection, and nothing else, to the slots.
C23_CreationSerialized ==
    /\ [](\A t, u \in Threads : InCreation(t) /\ InCreation(u) => t = u)
    /\ [](\A t \in Threads : InCreation(t) =>
              hold_lock = t /\ fr[t].conn \notin slots /\ holder[fr[t].conn] = t)
    /\ [][\A t \in Threads :
            (fr[t].pc = "nc_swap" /\ fr'[t].pc # "nc_swap") =>
                /\ ret'.outcome = "conn"
                /\ slots' = slots \cup {fr[t].conn}
                /\ Cardinality(slots') = Cardinality(slots) + 1
                /\ holder'[fr[t].conn] = t]_vars

\* the second caller is waiting for its Happy Eyeballs race inside the
\* section, after the first caller has installed its own connection
C23_Witness ==
    /\ fr["t2"].pc = "nc_wait" /\ Ready("t1")
    /\ \E c \in slots : holder[c] = "t1" /\ c # fr["t2"].conn

(* ------------- properties of urlopen's clean-up ----------------------- *)
\* the step is the finally clause of an attempt of urlopen whose request
\* failed with a handled error, on the connection the attempt had acquired
FailedAttemptEnds ==
    /\ fr[Caller].pc = "uo_finally" /\ fr'[Caller].pc # "uo_finally"
    /\ ~call.clean_exit /\ fr[Caller].conn # NoConn

\* C24: when an attempt of urlopen fails with a handled transport error
\* after a connection was acquired, that connection is discarded (it leaves
\* the slots closed, is not passed to _put_conn and is nobody's any more, so
\* no later request gets it) and num_connections goes down by one.
C24_FailedAttemptDiscards ==
    [][FailedAttemptEnds =>
          LET c == fr[Caller].conn IN
          /\ c \notin slots' /\ holder'[c] = NoThread /\ conns'[c] = FreeConn
          /\ \A p \in PromiseIds : pmap'[p] # c
          /\ maxsize' = maxsize /\ extensions' = extensions
          /\ num_connections' = num_connections - 1]_vars

(* ------------- properties of the correlation table ------------------- *)
\* get_response(promise) has just ended for good: with the response, or
\* with the error that ends the exchange (MaxRetryError, or the transport
\* error itself when retries are disabled)
ExchangeEnded ==
    /\ Ended("get_response") /\ call.gr_with
    /\ ret.outcome \in {"response", "MaxRetryError"} \cup TransportErrors

\* C25: a promise is in the promise-to-connection table only while its
\* exchange is outstanding: every memorized promise is one that urlopen
\* returned and whose response has not been retrieved, and once
\* get_response(promise) has ended with the response or with a terminal
\* error the promise is not memorized any more.
C25_MemorizedWhileOutstanding ==
    /\ \A q \in PromiseIds : pmap[q] # NoConn => prom[q].st = "pending"
    /\ ExchangeEnded => pmap[call.gr_promise] = NoConn

\* a promise of a request in flight that TrafficPolice does not know yet
Unmemorized(q) == prom[q].st = "pending" /\ prom[q].conn # NoConn /\ pmap[q] = NoConn

\* C26: urlopen(multiplexed=True) that returns a ResponsePromise has memorized
\* the promise with the connection the request was sent on; the thread
\* still holds that connection when it memorizes, it gives the connection
\* up only with every promise in flight on it memorized, and a connection
\* with a promise not memorized yet is in the hands of the sending thread,
\* out of the reach of _get_conn in any other thread.
C26_MemorizedBeforeRelease ==
    /\ [][ret' # ret /\ ret'.op = "urlopen" /\ ret'.outcome = "promise"
            => /\ call'.promise # NoPromise
               /\ prom'[call'.promise].conn # NoConn
               /\ pmap'[call'.promise] = prom'[call'.promise].conn]_vars
    /\ [][\A c \in ConnIds :
            holder[c] = Caller /\ holder'[c] # Caller
                => \A q \in Pending(c) : pmap[q] = c]_vars
    /\ [](\A q \in PromiseIds :
            Unmemorized(q) => /\ holder[prom[q].conn] = Caller
                              /\ prom[q].conn \notin Available
                              /\ prom[q].conn \notin Held(Other))

\* urlopen has memorized its promise and holds the connection it is about to
\* put back, while the other thread waits for a connection of its own
C26_Witness ==
    /\ fr[Caller].pc = "uo_release"
    /\ call.release /\ call.promise # NoPromise
    /\ pmap[call.promise] = fr[Caller].conn
    /\ holder[fr[Caller].conn] = Caller
    /\ fr[Other].pc # "idle"

\* the connections the pool has created and not destroyed
Created == {c \in ConnIds : conns[c].st # "free"}

\* C27: once a plain urlopen with release_conn=True has returned its
\* response, the connection it used is back in the pool, checked out by
\* nobody and idle; the next urlopen takes that connection instead of
\* creating one; however many requests follow each other, the pool has
\* created one connection at most.
C27_SequentialReuse ==
    /\ [](num_connections <= 1 /\ Cardinality(Created) <= 1)
    /\ [](ret.op = "urlopen" /\ ret.outcome = "response"
            => /\ num_connections = 1
               /\ Created # {}
               /\ \A c \in Created :
                     c \in slots /\ holder[c] = NoThread /\ is_idle(c))
    /\ [][Ready(Caller) /\ ~Ready(Caller)' /\ Created # {}
            => /\ fr'[Caller].conn \in Created
               /\ holder'[fr'[Caller].conn] = Caller
               /\ num_connections' = num_connections]_vars

\* a request that followed others has returned its response at the first
\* attempt
C27_Witness ==
    /\ ret.op = "urlopen" /\ ret.outcome = "response"
    /\ num_requests >= 3
    /\ call.sent = 1
    /\ num_connections = 1

\* _put_conn(c) by thread t would find the pool full and not blocking, and
\* the connection not idle
FullForBusy(t, c) ==
    /\ pool_open /\ ~block
    /\ c \in Held(t) /\ PutFull(c) /\ ~is_idle(c)
    /\ Ready(t) \/ (fr[t].pc = "pc_put" /\ fr[t].conn = c)

C29_FullBlockingCloses ==
    [][\A t \in Threads : \A c \in ConnIds :
        /\ pool_open /\ block
        /\ Ready(t) /\ holder[c] = t /\ PutFull(c)
        /\ holder'[c] # t
        => /\ ret'.op = "put_conn" /\ ret'.outcome = "FullPoolError"
           /\ conns'[c].st # "open"
           /\ c \notin slots'
           /\ maxsize' = maxsize]_vars

C31_CloseOnce ==
    /\ [](clears <= 1)
    /\ [](ret.op = "close" => ret.outcome = "returned")
    /\ []((~pool_open /\ \A t \in Threads : Ready(t))
            => clears = 1 /\ (watch.pc # "off" => background_monitoring_stop))
    /\ [][(~pool_open /\ (\A t \in Threads : Ready(t)) /\ ret'.op = "close")
            => UNCHANGED <<slots, conns, pmap, prom, clears, resolver,
                          background_monitoring, background_monitoring_stop>>]_vars

\* the condition of the claim for the connection the task has at hand
ShouldPing(w) ==
    /\ w.conn \in slots /\ holder[w.conn] = NoThread /\ is_idle(w.conn)
    /\ ~is_closed(w.conn)
    /\ w.idle_delay >= OneSecond
    /\ w.keepalive_delay # NoDelay /\ w.keepalive_idle_window # NoDelay
    /\ w.since_connection_delay # NoDelay
    /\ w.since_connection_delay <= w.keepalive_delay
    /\ w.idle_delay >= w.keepalive_idle_window

\* C32: the task pings the connection at hand exactly when the connection is
\* idle and connected, has been idle for a second or more, keepalive_delay
\* and keepalive_idle_window are both set, the connection is no older than
\* keepalive_delay and has been idle for keepalive_idle_window or longer;
\* the ping is counted once in num_pings, sent, and followed at once by the
\* peek that expects the reply.
C32_PingWhenDue ==
    /\ [][watch'.num_pings # watch.num_pings
            => /\ watch'.num_pings = watch.num_pings + 1
               /\ watch'.pc = "ping" /\ watch'.conn = watch.conn
               /\ ShouldPing(watch')]_vars
    /\ [][(watch.pc \in {"conn", "peek", "keepalive"} /\ watch'.pc = "next")
            => ~ShouldPing(watch')]_vars
    /\ [][watch.pc = "ping" /\ watch' # watch
            => watch'.pc = "frame" /\ watch'.num_pings = watch.num_pings]_vars
    /\ [][watch.pc = "frame" /\ watch' # watch
            => watch'.pc = "next" /\ watch'.num_pings = watch.num_pings]_vars
    /\ [][watch.pc \notin {"keepalive", "ping"} => watch'.pc # "ping"]_vars

\* a connection that is exactly as old as keepalive_delay and has been idle
\* for exactly keepalive_idle_window was pinged, and the task peeks for the
\* reply
C32_Witness ==
    /\ watch.pc = "frame" /\ watch.num_pings >= 1
    /\ watch.since_connection_delay = watch.keepalive_delay
    /\ watch.idle_delay = watch.keepalive_idle_window

\* C33: whenever a monitor task was started with an idle window, the idle
\* window it was given is MINIMAL_KEEPALIVE_IDLE_WINDOW or more and the
\* watch delay it was given is no longer than that idle window nor than the
\* configured one; the task keeps both, and each time it wakes up it has
\* slept for no longer than the idle window.
C33_WindowsClamped ==
    /\ []((watch.pc # "off" /\ watch.keepalive_idle_window # NoDelay)
            => /\ watch.keepalive_idle_window >= MINIMAL_KEEPALIVE_IDLE_WINDOW
               /\ watch.waiting_delay <= watch.keepalive_idle_window
               /\ watch.waiting_delay <= watch.background_watch_delay
               /\ (watch.pc = "awake"
                     => watch.slept_period <= watch.keepalive_idle_window))
    /\ [][/\ watch'.waiting_delay = watch.waiting_delay
          /\ watch'.keepalive_idle_window = watch.keepalive_idle_window]_vars

\* a task configured with a watch delay longer than its idle window, and
\* running with the minimal idle window, wakes up after the shortened delay
C33_Witness ==
    /\ watch.pc = "awake"
    /\ watch.keepalive_idle_window = MINIMAL_KEEPALIVE_IDLE_WINDOW
    /\ watch.waiting_delay < watch.background_watch_delay
    /\ watch.slept_period = watch.waiting_delay

\* the parts of C34 that do not depend on the configuration: no step starts
\* a task that was not started by the constructor or has returned, no step
\* creates a monitor handle, a handle is held only for a started task, and
\* once close() has returned the pool holds no handle and the stop event of
\* a started task is set
NoLaterMonitor ==
    /\ [][watch.pc \in {"off", "returned"} => watch'.pc = watch.pc]_vars
    /\ [][~background_monitoring => ~background_monitoring']_vars
    /\ [](background_monitoring => watch.pc # "off")
    /\ []((~pool_open /\ Ready(Caller))
            => /\ ~background_monitoring
               /\ (watch.pc # "off" => background_monitoring_stop))

\* C34: a monitor task is started by the constructor if and only if
\* background_watch_delay is not None; no later operation starts another
\* one, and after close() the pool holds no monitor handle.
C34_MonitorIffConfigured ==
    /\ [](watch.pc # "off" <=> watch.background_watch_delay # NoDelay)
    /\ NoLaterMonitor

\* C34, amended: a monitor task is started by the constructor if and only if
\* background_watch_delay is not None and is
\* MINIMAL_BACKGROUND_WATCH_WINDOW or more; no later operation starts
\* another one, and after close() the pool holds no monitor handle.
C34_MonitorIffAboveMinimum ==
    /\ [](watch.pc # "off"
            <=> /\ watch.background_watch_delay # NoDelay
                /\ watch.background_watch_delay >= MINIMAL_BACKGROUND_WATCH_WINDOW)
    /\ NoLaterMonitor

\* close() has returned on a pool built with a watch delay: the handle is
\* gone and the task, told to stop, has returned
C34_Witness ==
    /\ ret.op = "close" /\ ret.outcome = "returned" /\ ~ret.closed0
    /\ watch.background_watch_delay # NoDelay
    /\ watch.pc = "returned" /\ ~background_monitoring

\* urlopen's except clause has just handled a MustDowngradeError on the
\* connection thread t holds, and a retry is left
Downgraded(t) ==
    /\ fr[t].pc = "uo_finally" /\ fr[t].conn # NoConn
    /\ ~call.clean_exit
    /\ call.exc = "MustDowngradeError" /\ call.raising = "none"

\* C35: once urlopen has handled a MustDowngradeError with a retry left,
\* the protocol of the connection that raised it is in
\* conn_kw["disabled_svn"] before the request goes out again; a connection
\* that connects never negotiates a protocol the set held at that time;
\* and the set only grows.
C35_DowngradeRecorded ==
    /\ [](\A t \in Threads :
             Downgraded(t) => conns[fr[t].conn].svn \in disabled_svn)
    /\ [][\A t \in Threads :
             (Downgraded(t) /\ fr'[t].pc # "uo_finally")
                => /\ conns[fr[t].conn].svn \in disabled_svn'
                   /\ call'.sent = call.sent]_vars
    /\ [][\A c \in ConnIds :
             (is_closed(c) /\ conns'[c].st = "open")
                => conns'[c].svn \notin disabled_svn]_vars
    /\ [][disabled_svn \subseteq disabled_svn']_vars

\* after a downgrade from HTTP/2 the resubmitted request was answered on a
\* connection that negotiated HTTP/1.1
C35_Witness ==
    /\ fr[Caller].pc = "uo_finally" /\ call.clean_exit
    /\ call.incs >= 1 /\ call.sent >= 2
    /\ disabled_svn = {"h2"}
    /\ conns[fr[Caller].conn].svn = "h11"

\* C36: a request goes out on a connected connection only: when
\* conn.request is called, the connection that _get_conn handed out is
\* open, having been connected by _validate_conn if it was new or found
\* dropped, and when the attempt needs a tunnel the tunnel was set up
\* before that connection was made; nothing follows the request on the
\* connection within the attempt.
C36_ConnectedBeforeRequest ==
    /\ [](\A t \in Threads :
             /\ fr[t].pc = "uo_send" => ~is_closed(fr[t].conn)
             /\ fr[t].trail \in {<<>>, <<"tunnel">>, <<"connect">>, <<"request">>,
                                 <<"tunnel", "connect">>, <<"connect", "request">>,
                                 <<"tunnel", "connect", "request">>}
             /\ (fr[t].tunnel /\ fr[t].trail # <<>>) => fr[t].trail[1] # "connect")
    /\ [][\A t \in Threads :
             (fr[t].pc = "uo_send" /\ fr'[t].pc # "uo_send")
                => /\ ~is_closed(fr[t].conn)
                   /\ conns'[fr[t].conn] = conns[fr[t].conn]]_vars
    /\ [][\A t \in Threads :
             (fr[t].pc = "uo_validate" /\ fr'[t].pc = "uo_send"
              /\ is_closed(fr[t].conn))
                => /\ conns'[fr[t].conn].st = "open"
                   /\ fr'[t].trail = Append(fr[t].trail, "connect")]_vars

\* a request went out on a connection that needed a tunnel, after the tunnel
\* and then the connection were made
C36_Witness ==
    /\ fr[Caller].pc = "uo_finally" /\ fr[Caller].tunnel
    /\ fr[Caller].trail = <<"tunnel", "connect", "request">>
    /\ call.sent >= 1

\* a pooled connection that was found dropped was closed, connected again
\* and then used
C36_WitnessDropped ==
    /\ fr[Caller].pc = "uo_finally" /\ ~fr[Caller].tunnel
    /\ fr[Caller].trail = <<"connect", "request">>
    /\ num_connections = 1 /\ num_requests >= 2

\* urlopen returns a promise or a response in this step of thread t
UrlopenReturns(t) ==
    /\ fr[t].pc = "uo_finally" /\ fr[t].conn # NoConn
    /\ ret'.op = "urlopen" /\ ret'.outcome \in {"promise", "response"}

\* what a synchronous return is held to: the response is one that neither a
\* redirect nor a status retry with budget left would have followed, and
\* the correlation table is as it was
Evaluated ==
    /\ ~(/\ call.redirect /\ HasRedirectLocation(call.resp)
          /\ RetryIncrementResponse(call.retries).kind # "exhausted")
    /\ ~(/\ ~(call.redirect /\ HasRedirectLocation(call.resp))
          /\ is_retry(call.retries, call.method, call.resp)
          /\ RetryIncrementResponse(call.retries).kind # "exhausted")
    /\ pmap' = pmap /\ prom' = prom /\ call.promise = NoPromise

\* C37: urlopen(multiplexed=True) returns a promise if and only if the
\* connection it used is multiplexed; on any other connection it returns a
\* response with redirects and status retries applied and memorizes
\* nothing.
C37_PromiseIffMultiplexed ==
    [][UrlopenReturns(Caller)
         => /\ ret'.outcome = "promise" <=> is_multiplexed(fr[Caller].conn)
            /\ ret'.outcome = "response" => Evaluated]_vars

\* C37, amended: urlopen(multiplexed=True) returns a promise if and only if
\* the connection it used is multiplexed and no earlier attempt of the call
\* has fallen back; an attempt on a connection that is not multiplexed
\* falls back, and from then on the call is synchronous whatever its next
\* connection is; a synchronous return has redirects and status retries
\* applied and memorizes nothing.
C37_PromiseUnlessFallenBack ==
    /\ [][UrlopenReturns(Caller)
            => /\ ret'.outcome = "promise"
                     <=> (is_multiplexed(fr[Caller].conn) /\ call.mux)
               /\ ret'.outcome = "promise"
                     => /\ call.promise # NoPromise
                        /\ pmap'[call.promise] = fr[Caller].conn
               /\ ret'.outcome = "response" => Evaluated]_vars
    /\ [][(fr[Caller].pc = "uo_request" /\ call'.clean_exit
           /\ ~is_multiplexed(fr[Caller].conn)')
            => ~call'.mux /\ call'.promise = NoPromise]_vars
    /\ [][(~call.mux /\ call.sent > 0 /\ call'.sent >= call.sent) => ~call'.mux]_vars

\* the call fell back on an HTTP/1.1 connection, was retried after a 503
\* and now returns a response that it read on an HTTP/2 connection
C37_Witness ==
    /\ fr[Caller].pc = "uo_finally" /\ call.clean_exit /\ ~call.mux
    /\ call.via = "status" /\ call.resp.status = 200
    /\ is_multiplexed(fr[Caller].conn)

\* the error of the step is a socket timeout or an OSError whose errno is
\* EAGAIN or EWOULDBLOCK
Blocking(err) ==
    \/ err.kind = "SocketTimeout"
    \/ IsOSError(err.kind) /\ err.errno \in {"EAGAIN", "EWOULDBLOCK"}

BlockingIn(step, err) ==
    IF step = "validate"
    THEN \/ err.kind = "SocketTimeout"
         \/ err.kind = "BaseSSLError" /\ err.errno \in {"EAGAIN", "EWOULDBLOCK"}
    ELSE Blocking(err)

TrailAfter(t) == IF fr'[t].pc = "idle" THEN ret'.trail ELSE fr'[t].trail

\* C39: every attempt of urlopen that acquired a connection disposes of it
\* exactly once before urlopen returns, raises or calls itself again: by
\* kill_cursor when the exit was not clean, else by _put_conn, or by leaving
\* it with the response when release_conn is False; a thread that enters
\* urlopen again or has left it holds no connection, but for one left with
\* the response it returned.
C39_ReleasedOnce ==
    /\ [][\A t \in Threads :
             (fr[t].pc = "uo_fin_release" /\ fr'[t].pc # "uo_fin_release")
                => /\ Len(TrailAfter(t)) = 1
                   /\ TrailAfter(t)[1] = "kill_cursor" <=> ~call.clean_exit
                   /\ TrailAfter(t)[1] = "put_conn" <=> (call.clean_exit /\ call.release)
                   /\ TrailAfter(t)[1] = "handed" <=> (call.clean_exit /\ ~call.release)
                   /\ (fr'[t].pc = "uo_enter" \/ TrailAfter(t)[1] # "handed")
                         => Held(t)' = {}
                   /\ Cardinality(Held(t)') <= 1]_vars
    /\ [](\A t \in Threads :
             /\ fr[t].pc = "uo_enter" => Held(t) = {}
             /\ (Ready(t) /\ ret.op = "urlopen" /\ ret.trail # <<"handed">>)
                   => Held(t) = {}
             /\ Cardinality(Held(t)) <= 1)

\* a failed first attempt was thrown away and the retried request returned
\* its connection to the pool
C39_Witness ==
    /\ Ready(Caller) /\ ret.op = "urlopen" /\ ret.outcome = "response"
    /\ ret.trail = <<"put_conn">>
    /\ call.via = "error" /\ call.incs >= 1
    /\ Held(Caller) = {}

\* what a urlopen call that is leaving may end with: its response or
\* promise, ClosedPoolError, or the error its own attempt left the except
\* clause with
OwnOutcome(k, outcome) ==
    \/ outcome \in {"response", "promise", "ClosedPoolError"}
    \/ outcome # "none" /\ outcome = k.raising
    \/ outcome \in {"MaxRetryError", "EmptyPoolError", "HostChangedError"}

\* C40: a urlopen that is in flight while close() runs ends with its
\* response, with ClosedPoolError or with the error of its own attempt,
\* never with an error that comes from self.pool having become None (the
\* AttributeError of kill_cursor or memorize on None)
C40_EndsWithOwnOutcome ==
    [][\A t \in Threads :
          (fr[t].op = "urlopen" /\ ~Ready(t) /\ Ready(t)')
             => OwnOutcome(call', ret'.outcome)]_vars
====
